---- MODULE Spec2Model ----
(***************************************************************************)
(* PiBlock: the blocklist store (blocklist.go), the per-device matcher     *)
(* (userfilter.go) and the DNS front-end (StartDNSServer).                 *)
(*                                                                         *)
(* Go strings are modelled as sequences of one-character strings, so that  *)
(* trimming, lower-casing, splitting and pattern compilation are computed  *)
(* the way the code computes them.                                         *)
(***************************************************************************)
EXTENDS Integers, Sequences, FiniteSets, TLC

(***************************************************************************)
(* Bounds of the model.                                                    *)
(***************************************************************************)
\* longest rule line drawn for the matcher specification
MaxRuleLen == 3
\* longest domain drawn for the matcher specification
MaxDomLen == 3
\* most questions in one DNS message
MaxQuestions == 2
\* most item strings in one AddItemsToList call
MaxItems == 1
\* most control-plane calls in flight in the concurrent store specification
MaxCalls == 2
\* most calls one caller makes one after the other
MaxSeqCalls == 2
\* most questions in one DNS message of the multi-question specification
MaxMultiQuestions == 3
\* the clock of the control-plane specification stops at this tick
MaxNow == 3
\* most telemetry entries recorded in the control-plane specification
MaxLogged == 1
\* most requests the client of the control-plane specification sends
MaxRequests == 1

(***************************************************************************)
(* Strings.                                                                *)
(***************************************************************************)
Str == Seq(STRING)

\* unicode.IsSpace restricted to the characters of the model
IsSpace(c) == c \in {" ", "\t", "\n", "\r"}

\* the upper-case letters of the model's alphabet and their lower case
LowerOf(c) ==
    CASE c = "A" -> "a"
      [] c = "X" -> "x"
      [] c = "F" -> "f"
      [] OTHER -> c

ToLower(s) == [i \in 1..Len(s) |-> LowerOf(s[i])]

HasPrefix(s, p) == Len(s) >= Len(p) /\ SubSeq(s, 1, Len(p)) = p

HasSuffix(s, p) == Len(s) >= Len(p) /\ SubSeq(s, Len(s) - Len(p) + 1, Len(s)) = p

\* strings.TrimSuffix(s, p): p is removed once
TrimSuffix(s, p) == IF HasSuffix(s, p) THEN SubSeq(s, 1, Len(s) - Len(p)) ELSE s

TrimLeft[s \in Str] == IF s # <<>> /\ IsSpace(Head(s)) THEN TrimLeft[Tail(s)] ELSE s

TrimRight[s \in Str] ==
    IF s # <<>> /\ IsSpace(s[Len(s)]) THEN TrimRight[SubSeq(s, 1, Len(s) - 1)] ELSE s

TrimSpace(s) == TrimRight[TrimLeft[s]]

\* strings.Index(s, c) for a one-character needle; 0 when absent (Go: -1)
IndexOf(s, c) ==
    IF \E i \in 1..Len(s) : s[i] = c
    THEN CHOOSE i \in 1..Len(s) : s[i] = c /\ \A j \in 1..(i - 1) : s[j] # c
    ELSE 0

\* strings.FieldsFunc(s, sep): the maximal runs of characters not in sep
FieldsFunc[s \in Str, sep \in SUBSET STRING] ==
    IF s = <<>> THEN <<>>
    ELSE IF Head(s) \in sep THEN FieldsFunc[Tail(s), sep]
    ELSE LET stop == IF \E i \in 1..Len(s) : s[i] \in sep
                     THEN CHOOSE i \in 1..Len(s) :
                              s[i] \in sep /\ \A j \in 1..(i - 1) : s[j] \notin sep
                     ELSE Len(s) + 1
         IN  <<SubSeq(s, 1, stop - 1)>> \o FieldsFunc[SubSeq(s, stop, Len(s)), sep]

\* strings.Fields(s)
Fields(s) == FieldsFunc[s, {" ", "\t", "\n", "\r"}]

Range(f) == {f[i] : i \in DOMAIN f}

Flatten[ss \in Seq(Str)] == IF ss = <<>> THEN <<>> ELSE Head(ss) \o Flatten[Tail(ss)]

\* the same for sequences of strings: append(a, b...)
Concat[ss \in Seq(Seq(Str))] == IF ss = <<>> THEN <<>> ELSE Head(ss) \o Concat[Tail(ss)]

\* the sequences that list each element of the finite set S once
Perms(S) ==
    {p \in [1..Cardinality(S) -> S] : \A i, j \in DOMAIN p : i # j => p[i] # p[j]}

\* all strings over alphabet A of length at most n
StringsUpTo(A, n) == UNION {[1..k -> A] : k \in 0..n}

(***************************************************************************)
(* blocklist.go: normalizePattern, isLocalHostName, isIPString.            *)
(***************************************************************************)
normalizePattern[p \in Str] ==
    LET q == ToLower(TrimSuffix(TrimSpace(p), <<".">>))
    IN  IF q = <<>> \/ HasPrefix(q, <<"#">>) THEN <<>> ELSE q

LocalNames ==
    { <<"l","o","c","a","l","h","o","s","t">>,
      <<"l","o","c","a","l">>,
      <<"b","r","o","a","d","c","a","s","t","h","o","s","t">>,
      <<"i","p","6","-","l","o","c","a","l","h","o","s","t">>,
      <<"i","p","6","-","l","o","o","p","b","a","c","k">> }

\* a filter that knows the five names only
isLocalHostNameExact(s) == s \in LocalNames

isLocalHostName(s) ==
    \/ s \in LocalNames
    \/ HasPrefix(s, <<"i","p","6","-">>)
    \/ HasPrefix(s, <<"f","f">>)

Digits == {"0", "1", "2", "3", "4", "5", "6", "7", "8", "9"}

DigitVal(c) ==
    CASE c = "0" -> 0 [] c = "1" -> 1 [] c = "2" -> 2 [] c = "3" -> 3 [] c = "4" -> 4
      [] c = "5" -> 5 [] c = "6" -> 6 [] c = "7" -> 7 [] c = "8" -> 8 [] c = "9" -> 9

DecVal[s \in Str] == IF s = <<>> THEN 0 ELSE 10 * DecVal[SubSeq(s, 1, Len(s) - 1)] + DigitVal(s[Len(s)])

\* one field of a dotted quad as net.ParseIP accepts it: 1 to 3 digits, at
\* most 255, no leading zero
IsOctet(s) ==
    /\ Len(s) \in 1..3
    /\ \A i \in 1..Len(s) : s[i] \in Digits
    /\ (Len(s) > 1 => s[1] # "0")
    /\ DecVal[s] <= 255

\* strings.Split(s, ".")
SplitDot[s \in Str] ==
    LET i == IndexOf(s, ".")
    IN  IF i = 0 THEN <<s>>
        ELSE <<SubSeq(s, 1, i - 1)>> \o SplitDot[SubSeq(s, i + 1, Len(s))]

\* net.ParseIP(s) != nil, for the strings of the model: the alphabet has no
\* ':', so only the dotted-quad form can parse
isIPString(s) ==
    LET parts == SplitDot[s]
    IN  Len(parts) = 4 /\ \A i \in 1..4 : IsOctet(parts[i])

(***************************************************************************)
(* blocklist.go: readLines.  A text is the sequence of its lines, as       *)
(* bufio.Scanner yields them.                                              *)
(***************************************************************************)
\* the hostnames one line contributes
LineDomains[raw \in Str] ==
    LET idx     == IndexOf(raw, "#")
        nocomm  == IF idx > 0 THEN SubSeq(raw, 1, idx - 1) ELSE raw
        line    == TrimSpace(nocomm)
        fields  == Fields(line)
        isHosts == fields # <<>> /\ isIPString(fields[1])
        hosts   == IF isHosts THEN Tail(fields) ELSE fields
        norm    == [i \in 1..Len(hosts) |-> normalizePattern[TrimSpace(hosts[i])]]
        keep(n) == n # <<>> /\ ~isLocalHostName(n) /\ ~isIPString(n)
    IN  IF line = <<>> \/ fields = <<>> THEN <<>>
        ELSE SelectSeq(norm, keep)

readLines[text \in Seq(Str)] == Concat[[i \in 1..Len(text) |-> LineDomains[text[i]]]]

(***************************************************************************)
(* blocklist.go: patternToRegexp, and the part of Go's regexp syntax that  *)
(* its output uses.                                                        *)
(***************************************************************************)
\* the characters regexp.QuoteMeta escapes
MetaChars == {"\\", ".", "+", "*", "?", "(", ")", "|", "[", "]", "{", "}", "^", "$"}

QuoteMeta(s) ==
    Flatten[[i \in 1..Len(s) |-> IF s[i] \in MetaChars THEN <<"\\", s[i]>> ELSE <<s[i]>>]]

\* strings.ReplaceAll(s, old, new), old not empty: left to right, no overlap
ReplaceAll[s \in Str, old \in Str, new \in Str] ==
    IF s = <<>> THEN <<>>
    ELSE IF HasPrefix(s, old) THEN new \o ReplaceAll[SubSeq(s, Len(old) + 1, Len(s)), old, new]
    ELSE <<Head(s)>> \o ReplaceAll[Tail(s), old, new]

\* the source text of the regular expression, or <<>> for the nil regexp
RegexSource[p \in Str] ==
    LET n   == normalizePattern[p]
        esc == ReplaceAll[QuoteMeta(n), <<"\\", "*">>, <<".", "*">>]
    IN  IF n = <<>> THEN <<>> ELSE <<"^">> \o esc \o <<"$">>

\* regexp.Compile on such a source: the atoms between ^ and $.  An escaped
\* character is a literal, ".*" is a star over any character but newline, a
\* lone "." is any one character but newline.
ParseAtoms[src \in Str] ==
    IF src = <<>> THEN <<>>
    ELSE IF Head(src) = "\\" /\ Len(src) >= 2
         THEN <<[k |-> "lit", c |-> src[2]]>> \o ParseAtoms[SubSeq(src, 3, Len(src))]
    ELSE IF Head(src) = "." /\ Len(src) >= 2 /\ src[2] = "*"
         THEN <<[k |-> "anystar", c |-> "."]>> \o ParseAtoms[SubSeq(src, 3, Len(src))]
    ELSE IF Head(src) = "."
         THEN <<[k |-> "any", c |-> "."]>> \o ParseAtoms[Tail(src)]
    ELSE <<[k |-> "lit", c |-> Head(src)]>> \o ParseAtoms[Tail(src)]

\* a compilation that leaves '.' a regexp metacharacter
patternToRegexpDotAny(p) ==
    LET n == normalizePattern[p]
    IN  IF n = <<>> THEN [nil |-> TRUE, atoms |-> <<>>]
        ELSE [nil |-> FALSE,
              atoms |-> [i \in 1..Len(n) |->
                            IF n[i] = "*" THEN [k |-> "anystar", c |-> "."]
                            ELSE IF n[i] = "." THEN [k |-> "any", c |-> "."]
                            ELSE [k |-> "lit", c |-> n[i]]]]

\* the compiled regexp: [nil |-> TRUE] or [nil |-> FALSE, atoms |-> ...]
patternToRegexp(p) ==
    LET src == RegexSource[p]
    IN  IF src = <<>> THEN [nil |-> TRUE, atoms |-> <<>>]
        ELSE [nil |-> FALSE, atoms |-> ParseAtoms[SubSeq(src, 2, Len(src) - 1)]]

\* the atoms regexp.Compile gives
Atoms == [k : {"lit", "any", "anystar"}, c : STRING]

\* the atoms match the whole of s (the source is anchored by ^ and $)
MatchAtoms[atoms \in Seq(Atoms), s \in Str] ==
    IF atoms = <<>> THEN s = <<>>
    ELSE IF Head(atoms).k = "anystar"
         THEN \E n \in 0..Len(s) :
                  /\ \A i \in 1..n : s[i] # "\n"
                  /\ MatchAtoms[Tail(atoms), SubSeq(s, n + 1, Len(s))]
    ELSE IF Head(atoms).k = "any"
         THEN s # <<>> /\ Head(s) # "\n" /\ MatchAtoms[Tail(atoms), Tail(s)]
    ELSE s # <<>> /\ Head(s) = Head(atoms).c /\ MatchAtoms[Tail(atoms), Tail(s)]

\* Regexp.MatchString
MatchString(re, s) == ~re.nil /\ MatchAtoms[re.atoms, s]

(***************************************************************************)
(* The universe of the model.                                              *)
(***************************************************************************)
\* list names: <dir>/<name>.txt
ListNames == {"L1", "L2"}
\* device identifiers (MAC addresses); "" is the empty string
MACs == {"A", "B"}
\* client IP addresses
IPs == {"ip1", "ip2"}
\* control-plane calls (each identifier is used for one call) and DNS handlers
CallIds == 1..MaxCalls
HandlerIds == {1}
\* where a zero byte stands in a line: a hole left by a write past the end
Nul == "NUL"
\* no call holds b.mu for writing
NoWriter == 0
\* no goroutine holds the mutex
NoHolder == [by |-> "none"]
\* the DNS goroutine is not inside RecordQueryWithClient
NotRecording == [pc |-> "idle", n |-> 0, domain |-> <<>>, client |-> "", blocked |-> FALSE]

VARIABLES
    files,          \* the blocklist directory: list name -> lines of <name>.txt
    lists,          \* b.lists: [gen, val], val: list name -> rules
    compiled,       \* b.compiled: [gen, val], val: the compiled regexps
    mu,             \* b.mu: the call that holds the write lock, or NoWriter
    made,           \* the maps and slices LoadAll has built, by the LoadAll that built them
    dir0,           \* the directory as NewBlocklistManager found it
    ipToMAC,        \* ipMACCache.ipToMAC
    userBlocklists, \* table user_blocklists: device -> list names
    AppConfig,      \* the runtime config
    calls,          \* the control-plane calls and where each stands
    handlers,       \* the DNS handler goroutines and where each stands
    sessions,       \* am.sessions: session id -> session
    now,            \* time.Now(), in ticks of 12 hours since the process started
    http,           \* the control requests served and what each was answered
    recent,         \* b.recent: the ring of recent queries
    logFile,        \* logs.jsonl: the entries appended
    before,         \* history: the store as each caller found it on entering its call
    retired,        \* history: the session ids removed from am.sessions
    queries,        \* b.queries
    blockedQueries, \* b.blockedQueries
    domainHits,     \* b.domainHits: domain -> blocked queries
    allHits,        \* b.allHits: domain -> queries
    clientHits,     \* b.clientHits: client address -> queries
    appending,      \* the appendLog goroutines started that have not run yet
    deleting,       \* the DeleteLogs call and where it stands
    returned,       \* what the last GetLogs or GetStats call returned
    statsMu,        \* b.statsMu: the goroutine that holds it, or NoHolder
    recentMu,       \* b.recentMu: the goroutine that holds it, or NoHolder
    logMu,          \* b.logMu: the goroutine that holds it, or NoHolder
    recording       \* the RecordQueryWithClient call of the DNS goroutine, step by step

vars == <<files, lists, compiled, mu, made, dir0, ipToMAC, userBlocklists,
          AppConfig, calls, handlers, sessions, now, http, recent, logFile, before,
          retired, queries, blockedQueries, domainHits, allHits, clientHits, appending,
          deleting, returned, statsMu, recentMu, logMu, recording>>

storeVars == <<files, lists, compiled, mu, made, dir0>>
dnsVars == <<ipToMAC, userBlocklists, AppConfig, handlers>>
statVars == <<queries, blockedQueries, domainHits, allHits, clientHits>>
lockVars == <<statsMu, recentMu, logMu, recording>>
telVars == <<statVars, appending, deleting, returned, lockVars>>
apiVars == <<sessions, now, http, recent, logFile, before, retired, telVars>>

(***************************************************************************)
(* blocklist.go: LoadAll, as a function of what it read.                   *)
(***************************************************************************)
\* lines 103-115: the regexps of every rule of every list.  The slice is in
\* map iteration order; IsBlocked returns on any match, so the order is not
\* observable and the slice is kept as a set.
CompileAll(ls) ==
    LET pats == UNION {Range(ls[n]) : n \in DOMAIN ls}
        res  == {patternToRegexp(TrimSpace(p)) : p \in {q \in pats : TrimSpace(q) # <<>>}}
    IN  {re \in res : ~re.nil}

\* lines 83-101: every file of the directory, parsed
ScanDir(dir) == [n \in DOMAIN dir |-> readLines[dir[n]]]

\* IsBlocked (lines 126-136) on a given compiled slice
IsBlockedIn(comp, domain) ==
    LET d == TrimSuffix(ToLower(TrimSpace(domain)), <<".">>)
    IN  \E re \in comp : MatchString(re, d)

(***************************************************************************)
(* Control-plane calls.  A call is a goroutine running one method of the   *)
(* BlocklistManager; pc is the statement it has reached.                   *)
(***************************************************************************)
EmptyMap == [n \in {} |-> <<>>]

IdleCall ==
    [op |-> "none", pc |-> "idle", name |-> "", items |-> <<>>, create |-> FALSE,
     set |-> {}, added |-> 0, towrite |-> <<>>, woff |-> 0, entries |-> <<>>,
     scan |-> EmptyMap, arr |-> <<>>, gen |-> 0, cgen |-> 0, ret |-> "", err |-> "",
     laerr |-> FALSE]

\* a control request that has not arrived
IdleRequest ==
    [stage |-> "none", sid |-> "", method |-> "", path |-> "", name |-> "", body |-> "",
     status |-> 0, ran |-> FALSE, mac |-> "", guest |-> FALSE, call |-> "none"]

\* am.sessions of NewAccountManager, lines 141-144
NoSession == [s \in {} |-> [mac |-> "", guest |-> FALSE, expires |-> 0]]

\* no call entered yet
NotEntered ==
    [entered |-> FALSE, n |-> 0, files |-> EmptyMap, lists |-> EmptyMap, compiled |-> {},
     assoc |-> EmptyMap, recent |-> <<>>, logFile |-> <<>>,
     prev |-> [op |-> "none", pc |-> "idle", err |-> "", name |-> "", items |-> <<>>,
              added |-> 0]]

\* m with key k set to v
MapPut(m, k, v) == [n \in DOMAIN m \cup {k} |-> IF n = k THEN v ELSE m[n]]

\* the names of a set of list names in os.ReadDir order (sorted by file name)
SortedNames[S \in SUBSET ListNames] ==
    IF S = {} THEN <<>>
    ELSE LET first == CHOOSE n \in S : \A m \in S : n = m \/ (n = "L1" /\ m = "L2")
         IN  <<first>> \o SortedNames[S \ {first}]

\* lines 270-281: the tokens of the items, normalized, the empty ones dropped
ItemTokens[items \in Seq(Str)] ==
    LET parts(it) == FieldsFunc[it, {",", " ", "\n", "\r", "\t"}]
        toks      == Concat[[i \in 1..Len(items) |-> parts(items[i])]]
        norm      == [i \in 1..Len(toks) |-> normalizePattern[toks[i]]]
    IN  SelectSeq(norm, LAMBDA t : t # <<>>)

\* lines 257-265, 162-170: the rules a mutator takes over from the file
ExistingSet[text \in Seq(Str)] == {normalizePattern[l] : l \in Range(readLines[text])} \ {<<>>}

\* a write of one line through a descriptor whose offset is off lines: past
\* the end (the file was truncated by another os.Create meanwhile) it leaves
\* a hole of zero bytes in front of the line
WriteAt(content, off, line) ==
    IF off < Len(content) THEN [content EXCEPT ![off + 1] = line]
    ELSE IF off = Len(content) THEN Append(content, line)
    ELSE Append(content, <<Nul>> \o line)

\* an append that does not take over the rules the file holds
AddItemsReadNoOld(c, name, items, create) ==
    /\ calls[c].pc = "idle"
    /\ LET toks == ItemTokens[items]
       IN  calls' = [calls EXCEPT ![c] =
               [IdleCall EXCEPT !.op = "additems", !.pc = "create", !.name = name,
                                !.items = items, !.create = create,
                                !.set = Range(toks), !.added = Cardinality(Range(toks))]]
    /\ UNCHANGED <<storeVars, dnsVars, apiVars>>

\* AddItemsToList, lines 250-281: open and read the file, merge the items
AddItemsRead(c, name, items, create) ==
    /\ calls[c].pc = "idle"
    /\ LET exists == name \in DOMAIN files
           old    == IF exists THEN ExistingSet[files[name]] ELSE {}
           toks   == ItemTokens[items]
           new    == Range(toks) \ old
       IN  calls' = [calls EXCEPT ![c] =
               IF ~exists /\ ~create
               THEN [IdleCall EXCEPT !.op = "additems", !.pc = "done", !.name = name,
                                     !.items = items, !.create = create,
                                     !.err = "ErrNotExist"]
               ELSE [IdleCall EXCEPT !.op = "additems", !.pc = "create", !.name = name,
                                     !.items = items, !.create = create,
                                     !.set = old \cup new, !.added = Cardinality(new)]]
    /\ UNCHANGED <<storeVars, dnsVars, apiVars>>

\* a filter that stops at the first match: the rules after it are dropped
RemoveDomainDropsRest(c, name, domain) ==
    /\ calls[c].pc = "idle"
    /\ mu = NoWriter
    /\ LET ok      == name \in DOMAIN lists.val
           arr     == IF ok THEN lists.val[name] ELSE <<>>
           norm    == normalizePattern[domain]
           hit     == {i \in 1..Len(arr) : arr[i] = norm}
           first   == IF hit = {} THEN Len(arr) + 1
                      ELSE CHOOSE i \in hit : \A j \in hit : i <= j
           newArr  == SubSeq(arr, 1, first - 1)
           removed == hit # {}
           base    == [IdleCall EXCEPT !.op = "remove", !.name = name, !.items = <<domain>>]
       IN  calls' = [calls EXCEPT ![c] =
               IF ~ok THEN [base EXCEPT !.pc = "done", !.err = "ErrNotExist", !.ret = "false"]
               ELSE IF ~removed THEN [base EXCEPT !.pc = "done", !.ret = "false"]
               ELSE [base EXCEPT !.pc = "create", !.towrite = newArr, !.ret = "true"]]
    /\ UNCHANGED <<storeVars, dnsVars, apiVars>>

\* RemoveDomain, lines 462-485: under b.mu, filter the in-memory list
RemoveDomainLocked(c, name, domain) ==
    /\ calls[c].pc = "idle"
    /\ mu = NoWriter
    /\ LET ok      == name \in DOMAIN lists.val
           arr     == IF ok THEN lists.val[name] ELSE <<>>
           norm    == normalizePattern[domain]
           newArr  == SelectSeq(arr, LAMBDA d : d # norm)
           removed == newArr # arr
           base    == [IdleCall EXCEPT !.op = "remove", !.name = name, !.items = <<domain>>]
       IN  calls' = [calls EXCEPT ![c] =
               IF ~ok THEN [base EXCEPT !.pc = "done", !.err = "ErrNotExist", !.ret = "false"]
               ELSE IF ~removed THEN [base EXCEPT !.pc = "done", !.ret = "false"]
               ELSE [base EXCEPT !.pc = "create", !.towrite = newArr, !.ret = "true"]]
    /\ UNCHANGED <<storeVars, dnsVars, apiVars>>

\* os.Create(path), lines 188, 283 and 488: the file exists and is empty.  The
\* order in which the append will range over its set is fixed here.
CreateFile(c) ==
    /\ calls[c].pc = "create"
    /\ files' = MapPut(files, calls[c].name, <<>>)
    /\ \E order \in (IF calls[c].op \in {"additems", "addfile"} THEN Perms(calls[c].set)
                     ELSE {calls[c].towrite}) :
           calls' = [calls EXCEPT ![c].towrite = order, ![c].woff = 0,
                                  ![c].pc = IF order = <<>> THEN "la_readdir" ELSE "write"]
    /\ UNCHANGED <<lists, compiled, mu, made, dir0, dnsVars, apiVars>>

\* f.WriteString(k + "\n"), lines 288-292 and 493-497: one line
WriteLine(c) ==
    /\ calls[c].pc = "write"
    /\ LET n == calls[c].name
           rest == Tail(calls[c].towrite)
       IN  /\ files' = [files EXCEPT ![n] = WriteAt(files[n], calls[c].woff, Head(calls[c].towrite))]
           /\ calls' = [calls EXCEPT ![c].towrite = rest, ![c].woff = @ + 1,
                                     ![c].pc = IF rest = <<>> THEN "la_readdir" ELSE "write"]
    /\ UNCHANGED <<lists, compiled, mu, made, dir0, dnsVars, apiVars>>

\* POST /reload, apiserver.go lines 272-282: the handler calls LoadAll
Reload(c) ==
    /\ calls[c].pc = "idle"
    /\ calls' = [calls EXCEPT ![c] = [IdleCall EXCEPT !.op = "reload", !.pc = "la_readdir"]]
    /\ UNCHANGED <<storeVars, dnsVars, apiVars>>

\* LoadAll, line 78: os.ReadDir
LoadAllReadDir(c) ==
    /\ calls[c].pc = "la_readdir"
    /\ calls' = [calls EXCEPT ![c].entries = SortedNames[DOMAIN files],
                              ![c].scan = EmptyMap,
                              ![c].pc = IF DOMAIN files = {} THEN "la_lock" ELSE "la_open"]
    /\ UNCHANGED <<storeVars, dnsVars, apiVars>>

\* LoadAll, lines 84-101: open and parse the next entry
LoadAllOpen(c) ==
    /\ calls[c].pc = "la_open"
    /\ LET n    == Head(calls[c].entries)
           rest == Tail(calls[c].entries)
       IN  calls' = [calls EXCEPT
               ![c].scan = IF n \in DOMAIN files THEN MapPut(@, n, readLines[files[n]]) ELSE @,
               ![c].entries = rest,
               ![c].pc = IF rest = <<>> THEN "la_lock" ELSE "la_open"]
    /\ UNCHANGED <<storeVars, dnsVars, apiVars>>

\* an install of the list map that does not hold b.mu
LoadAllSetListsUnlocked(c) ==
    /\ calls[c].pc = "la_lock"
    /\ lists' = [gen |-> c, val |-> calls[c].scan]
    /\ made' = MapPut(made, c, [lists |-> calls[c].scan, compiled |-> CompileAll(calls[c].scan)])
    /\ calls' = [calls EXCEPT ![c].pc = "la_compiled"]
    /\ UNCHANGED <<files, compiled, mu, dir0, dnsVars, apiVars>>

\* LoadAll, lines 117-119: b.mu.Lock(); b.lists = lists
LoadAllSetLists(c) ==
    /\ calls[c].pc = "la_lock"
    /\ mu = NoWriter
    /\ mu' = c
    /\ lists' = [gen |-> c, val |-> calls[c].scan]
    /\ made' = MapPut(made, c, [lists |-> calls[c].scan, compiled |-> CompileAll(calls[c].scan)])
    /\ calls' = [calls EXCEPT ![c].pc = "la_compiled"]
    /\ UNCHANGED <<files, compiled, dir0, dnsVars, apiVars>>

\* an install that returns without releasing b.mu
LoadAllSetCompiledKeepLock(c) ==
    /\ calls[c].pc = "la_compiled"
    /\ compiled' = [gen |-> c, val |-> CompileAll(calls[c].scan)]
    /\ calls' = [calls EXCEPT ![c].pc = "done"]
    /\ UNCHANGED <<files, lists, mu, made, dir0, dnsVars, apiVars>>

\* LoadAll, lines 120-121: b.compiled = compiled; the deferred b.mu.Unlock()
LoadAllSetCompiled(c) ==
    /\ calls[c].pc = "la_compiled"
    /\ compiled' = [gen |-> c, val |-> CompileAll(calls[c].scan)]
    /\ mu' = NoWriter
    /\ calls' = [calls EXCEPT ![c].pc = "done"]
    /\ UNCHANGED <<files, lists, made, dir0, dnsVars, apiVars>>

\* IsBlocked, lines 126-136, as a call of its own
IsBlocked(c, domain) ==
    /\ calls[c].pc = "idle"
    /\ mu = NoWriter
    /\ calls' = [calls EXCEPT ![c] =
           [IdleCall EXCEPT !.op = "isblocked", !.pc = "done", !.items = <<domain>>,
                            !.gen = lists.gen, !.cgen = compiled.gen,
                            !.ret = IF IsBlockedIn(compiled.val, domain) THEN "true" ELSE "false"]]
    /\ UNCHANGED <<storeVars, dnsVars, apiVars>>

\* ListDomains, lines 432-437: the slice is read under the read lock
ListDomainsRead(c, name) ==
    /\ calls[c].pc = "idle"
    /\ mu = NoWriter
    /\ calls' = [calls EXCEPT ![c] =
           IF name \in DOMAIN lists.val
           THEN [IdleCall EXCEPT !.op = "listdomains", !.pc = "filter", !.name = name,
                                 !.gen = lists.gen, !.cgen = compiled.gen,
                                 !.arr = lists.val[name]]
           ELSE [IdleCall EXCEPT !.op = "listdomains", !.pc = "done", !.name = name,
                                 !.gen = lists.gen, !.cgen = compiled.gen,
                                 !.err = "ErrNotExist"]]
    /\ UNCHANGED <<storeVars, dnsVars, apiVars>>

\* ListDomains, lines 438-458 with q = "", offset = 0: the slice is copied
\* and cut after the lock is released
ListDomainsFilter(c) ==
    /\ calls[c].pc = "filter"
    /\ calls' = [calls EXCEPT ![c].pc = "done", ![c].ret = "page"]
    /\ UNCHANGED <<storeVars, dnsVars, apiVars>>

\* caller c is about to call a method of the BlocklistManager: its previous
\* call has returned.  The store as it is now is remembered in before[c].
Enter(c) ==
    /\ \/ calls[c].pc = "done"
       \/ calls[c].pc = "idle" /\ ~before[c].entered
    /\ before[c].n < MaxSeqCalls
    /\ before' = [before EXCEPT ![c] =
           [entered |-> TRUE, n |-> before[c].n + 1, files |-> files, lists |-> lists.val, compiled |-> compiled.val,
            assoc |-> userBlocklists, recent |-> recent, logFile |-> logFile,
            prev |-> [op |-> calls[c].op, pc |-> calls[c].pc, err |-> calls[c].err,
                      name |-> calls[c].name, items |-> calls[c].items,
                      added |-> calls[c].added]]]
    /\ calls' = [calls EXCEPT ![c] = IdleCall]
    /\ UNCHANGED <<storeVars, dnsVars, sessions, now, http, recent, logFile, retired, telVars>>

\* what client.Get(url) may give AddFileToList: a transport error, a status
\* outside 200..299, or a body
Fetches ==
    { [err |-> TRUE, status |-> 0, body |-> <<>>],
      [err |-> FALSE, status |-> 404, body |-> <<>>],
      [err |-> FALSE, status |-> 200, body |-> <<<<"y">>>>] }

\* AddFileToList, lines 140-185: fetch the URL, read the file, merge the lines
AddFileRead(c, name, fetch, create) ==
    /\ calls[c].pc = "idle"
    /\ LET exists   == name \in DOMAIN files
           newLines == readLines[fetch.body]
           old      == IF exists THEN ExistingSet[files[name]] ELSE {}
           new      == ({normalizePattern[l] : l \in Range(newLines)} \ {<<>>}) \ old
           base     == [IdleCall EXCEPT !.op = "addfile", !.name = name,
                                        !.items = fetch.body, !.create = create]
       IN  calls' = [calls EXCEPT ![c] =
               IF fetch.err THEN [base EXCEPT !.pc = "done", !.err = "fetch"]
               ELSE IF fetch.status < 200 \/ fetch.status >= 300
               THEN [base EXCEPT !.pc = "done", !.err = "status"]
               ELSE IF ~exists /\ ~create
               THEN [base EXCEPT !.pc = "done", !.err = "ErrNotExist"]
               ELSE [base EXCEPT !.pc = "create", !.set = old \cup new,
                                 !.added = Cardinality(new)]]
    /\ UNCHANGED <<storeVars, dnsVars, apiVars>>

\* os.Create fails (lines 189-192, 284-286, 489-491): the file is left as
\* it is and the method returns the error
CreateFails(c) ==
    /\ calls[c].pc = "create"
    /\ calls' = [calls EXCEPT ![c].pc = "done", ![c].err = "create", ![c].added = 0,
                              ![c].ret = IF calls[c].op = "remove" THEN "false" ELSE @]
    /\ UNCHANGED <<storeVars, dnsVars, apiVars>>

\* f.WriteString fails (lines 195-197, 289-291, 494-496): the lines written
\* so far stay in the file, the method returns the error
WriteFails(c) ==
    /\ calls[c].pc = "write"
    /\ calls' = [calls EXCEPT ![c].pc = "done", ![c].err = "write",
                              ![c].ret = IF calls[c].op = "remove" THEN "false" ELSE @]
    /\ UNCHANGED <<storeVars, dnsVars, apiVars>>

\* LoadAll, lines 78-81: os.ReadDir fails and LoadAll returns the error.  The
\* appends and the replace log it and return nil (lines 201-203, 240-242,
\* 293-295); RemoveDomain returns (true, err) (lines 498-500); /reload
\* answers 500
LoadAllReadDirFails(c) ==
    /\ calls[c].pc = "la_readdir"
    /\ calls' = [calls EXCEPT ![c].pc = "done", ![c].laerr = TRUE,
                              ![c].err = IF calls[c].op \in {"additems", "addfile", "replace"}
                                         THEN "" ELSE "readdir"]
    /\ UNCHANGED <<storeVars, dnsVars, apiVars>>

(***************************************************************************)
(* userfilter.go: the client binding cache and the per-device matcher.     *)
(***************************************************************************)
\* SetIPMAC, lines 21-26
SetIPMAC(ip, mac) ==
    /\ ipToMAC' = MapPut(ipToMAC, ip, mac)
    /\ UNCHANGED <<storeVars, userBlocklists, AppConfig, handlers, calls, apiVars>>

\* GetMAC, lines 29-34: the zero value "" when the IP has no entry
GetMAC(ip) == IF ip \in DOMAIN ipToMAC THEN ipToMAC[ip] ELSE ""

\* GetUserBlocklists (AccountManager): the rows of the device, or an error
\* when the query fails (dbFails)
GetUserBlocklists(mac, dbFails) ==
    IF dbFails THEN [err |-> TRUE, lists |-> {}]
    ELSE [err |-> FALSE, lists |-> IF mac \in DOMAIN userBlocklists
                                   THEN userBlocklists[mac] ELSE {}]

\* a matcher that consults every list of the snapshot, whatever the device
\* has enabled
IsBlockedForUserAnyList(domain, macAddress, lookup, ls) ==
    IF macAddress = "" THEN FALSE
    ELSE LET d == TrimSuffix(ToLower(TrimSpace(domain)), <<".">>)
         IN  \E listName \in DOMAIN ls :
                 \E i \in 1..Len(ls[listName]) :
                     /\ ls[listName][i] # <<>>
                     /\ MatchString(patternToRegexp(ls[listName][i]), d)

\* IsBlockedForUser, lines 37-79, given the result of GetUserBlocklists and
\* the value of bm.lists read under the read lock
IsBlockedForUser(domain, macAddress, lookup, ls) ==
    IF macAddress = "" THEN FALSE
    ELSE IF lookup.err THEN FALSE
    ELSE IF lookup.lists = {} THEN FALSE
    ELSE LET d == TrimSuffix(ToLower(TrimSpace(domain)), <<".">>)
         IN  \E listName \in lookup.lists :
                 /\ listName \in DOMAIN ls
                 /\ \E i \in 1..Len(ls[listName]) :
                        /\ ls[listName][i] # <<>>
                        /\ MatchString(patternToRegexp(ls[listName][i]), d)

(***************************************************************************)
(* StartDNSServer (the revision that takes the AccountManager): the        *)
(* handler of one DNS message.                                             *)
(***************************************************************************)
Qtypes == {"A", "ANY", "AAAA"}

\* net.ParseIP on a dotted quad: its four numbers; <<>> is the nil IP
ParseIP(s) ==
    IF isIPString(s) THEN [i \in 1..4 |-> DecVal[SplitDot[s][i]]] ELSE <<>>

\* msg := dns.Msg{}, line 14: the zero message
NoReply == [Id |-> 0, Response |-> FALSE, Question |-> <<>>]

\* msg.SetReply(r), line 15 (github.com/miekg/dns): the reply takes the id of
\* the request, is marked as a response and gets the first question of the
\* request as its question section
SetReply(r) ==
    [Id |-> r.Id, Response |-> TRUE,
     Question |-> IF Len(r.Question) > 0 THEN <<r.Question[1]>> ELSE <<>>]

IdleHandler ==
    [pc |-> "idle", ip |-> "", id |-> 0, reply |-> NoReply,
     questions |-> <<>>, qi |-> 0, name |-> <<>>,
     mac |-> "", lookup |-> [err |-> FALSE, lists |-> {}], blocked |-> FALSE,
     answer |-> <<>>, rcode |-> 0, aa |-> FALSE, nsynth |-> 0,
     recorded |-> <<>>, forwarded |-> <<>>, written |-> FALSE, writes |-> 0]

\* lines 13-16: the message r arrives; msg.SetReply(r);
\* msg.Authoritative = true
ReceiveMsg(h, ip, r) ==
    /\ handlers[h].pc \in {"idle", "done"}
    /\ handlers' = [handlers EXCEPT ![h] =
           [IdleHandler EXCEPT !.pc = "identify", !.ip = ip, !.id = r.Id,
                               !.reply = SetReply(r), !.questions = r.Question,
                               !.qi = 1, !.aa = TRUE]]
    /\ UNCHANGED <<storeVars, ipToMAC, userBlocklists, AppConfig, calls, apiVars>>

\* a message with the transaction id 0 and the questions qs arrives
Receive(h, ip, qs) == ReceiveMsg(h, ip, [Id |-> 0, Question |-> qs])

\* lines 19-34 and userfilter.go lines 38-53: the match name, the device of
\* the client IP and, for an identified device, its enabled lists
Identify(h, dbFails) ==
    /\ handlers[h].pc = "identify"
    /\ LET q    == handlers[h].questions[handlers[h].qi]
           name == IF Len(q.name) > 0 /\ q.name[Len(q.name)] = "."
                   THEN SubSeq(q.name, 1, Len(q.name) - 1) ELSE q.name
           mac  == GetMAC(handlers[h].ip)
       IN  handlers' = [handlers EXCEPT
               ![h].name = name,
               ![h].mac = mac,
               ![h].lookup = IF mac # "" THEN GetUserBlocklists(mac, dbFails)
                             ELSE [err |-> FALSE, lists |-> {}],
               ![h].pc = "match"]
    /\ (dbFails => GetMAC(handlers[h].ip) # "")
    /\ UNCHANGED <<storeVars, ipToMAC, userBlocklists, AppConfig, calls, apiVars>>

\* lines 36-43: the blocking decision
Decide(h) ==
    IF handlers[h].mac # ""
    THEN IsBlockedForUser(handlers[h].name, handlers[h].mac, handlers[h].lookup, lists.val)
    ELSE IsBlockedIn(compiled.val, handlers[h].name)

\* a synthesizer that answers every qtype with the A record
BlockAnswerAnyQtype(q) ==
    IF AppConfig.BlockingMode = "redirect"
    THEN <<[name |-> q.name, rrtype |-> "A", class |-> "IN", ttl |-> 60,
            a |-> <<127, 0, 0, 1>>]>>
    ELSE IF AppConfig.BlockingMode = "nx" THEN <<>>
    ELSE <<[name |-> q.name, rrtype |-> "A", class |-> "IN", ttl |-> 0,
            a |-> <<0, 0, 0, 0>>]>>

\* lines 45-71: the records the blocking mode adds for question q, and the RCODE
BlockAnswer(q) ==
    IF AppConfig.BlockingMode = "redirect"
    THEN LET target == IF AppConfig.BlockPageIP = <<>> THEN <<"1","2","7",".","0",".","0",".","1">>
                       ELSE AppConfig.BlockPageIP
         IN  IF q.qtype \in {"A", "ANY"}
             THEN <<[name |-> q.name, rrtype |-> "A", class |-> "IN", ttl |-> 60,
                     a |-> ParseIP(target)]>>
             ELSE <<>>
    ELSE IF AppConfig.BlockingMode = "nx" THEN <<>>
    ELSE IF q.qtype \in {"A", "ANY"}
         THEN <<[name |-> q.name, rrtype |-> "A", class |-> "IN", ttl |-> 0,
                 a |-> ParseIP(<<"0",".","0",".","0",".","0">>)]>>
         ELSE <<>>

\* a reply that keeps the RCODE it had
BlockRcodeKept(old) == old

\* dns.RcodeNameError is 3
BlockRcode(old) == IF AppConfig.BlockingMode = "nx" THEN 3 ELSE old

\* lines 36-71: decide under the read lock of b.mu; a blocked question gets
\* its synthesized records
Match(h) ==
    /\ handlers[h].pc = "match"
    /\ mu = NoWriter
    /\ LET q == handlers[h].questions[handlers[h].qi]
           b == Decide(h)
       IN  handlers' = [handlers EXCEPT
               ![h].blocked = b,
               ![h].answer = IF b THEN @ \o BlockAnswer(q) ELSE @,
               ![h].nsynth = IF b THEN Len(BlockAnswer(q)) ELSE 0,
               ![h].rcode = IF b THEN BlockRcode(@) ELSE @,
               ![h].pc = IF b THEN "record" ELSE "forward"]
    /\ UNCHANGED <<storeVars, ipToMAC, userBlocklists, AppConfig, calls, apiVars>>

\* what the upstream's answer section may hold for a question of the message
UpstreamRecord(q) ==
    [name |-> q.name, rrtype |-> "A", class |-> "IN", ttl |-> 300, a |-> <<93, 184, 216, 34>>]

\* a handler that gives up the message when the exchange fails
ForwardReturnsOnError(h, outcome) ==
    /\ handlers[h].pc = "forward"
    /\ \E about \in 1..Len(handlers[h].questions) :
           LET q    == handlers[h].questions[about]
               resp == IF outcome = "answer" THEN <<UpstreamRecord(q)>> ELSE <<>>
           IN  /\ outcome = "error" => about = 1
               /\ handlers' = [handlers EXCEPT
                      ![h].answer = @ \o resp,
                      ![h].forwarded = Append(@, [qi |-> handlers[h].qi, outcome |-> outcome,
                                                  about |-> about,
                                                  sent |-> handlers[h].questions]),
                      ![h].pc = IF outcome = "answer" THEN "record" ELSE "done"]
    /\ UNCHANGED <<storeVars, ipToMAC, userBlocklists, AppConfig, calls, apiVars>>

\* lines 79-89: c.Exchange(r, upstream) sends the whole message r and ends
\* with an error ("error": nothing is appended, as for a reply with an empty
\* answer section) or with the upstream's answer section ("answer"): a record
\* for one of the questions of r
Forward(h, outcome) ==
    /\ handlers[h].pc = "forward"
    /\ \E about \in 1..Len(handlers[h].questions) :
           LET q    == handlers[h].questions[about]
               resp == IF outcome = "answer" THEN <<UpstreamRecord(q)>> ELSE <<>>
           IN  /\ outcome = "error" => about = 1
               /\ handlers' = [handlers EXCEPT
                      ![h].answer = @ \o resp,
                      ![h].forwarded = Append(@, [qi |-> handlers[h].qi, outcome |-> outcome,
                                                  about |-> about,
                                                  sent |-> handlers[h].questions]),
                      ![h].pc = "record"]
    /\ UNCHANGED <<storeVars, ipToMAC, userBlocklists, AppConfig, calls, apiVars>>

\* a handler without the return after a blocked question: the loop goes on
RecordContinuesAfterBlock(h) ==
    /\ handlers[h].pc = "record"
    /\ handlers' = [handlers EXCEPT
           ![h].recorded = Append(@, [name |-> handlers[h].name, blocked |-> handlers[h].blocked,
                                      written |-> handlers[h].written]),
           ![h].qi = IF handlers[h].qi = Len(handlers[h].questions) THEN @ ELSE @ + 1,
           ![h].pc = IF handlers[h].qi = Len(handlers[h].questions)
                     THEN "write" ELSE "identify"]
    /\ UNCHANGED <<storeVars, ipToMAC, userBlocklists, AppConfig, calls, apiVars>>

\* a handler that records only the blocked questions
RecordBlockedOnly(h) ==
    /\ handlers[h].pc = "record"
    /\ handlers' = [handlers EXCEPT
           ![h].recorded = IF handlers[h].blocked
                           THEN Append(@, [name |-> handlers[h].name, blocked |-> TRUE,
                                           written |-> handlers[h].written])
                           ELSE @,
           ![h].qi = IF handlers[h].blocked THEN @ ELSE @ + 1,
           ![h].pc = IF handlers[h].blocked \/ handlers[h].qi = Len(handlers[h].questions)
                     THEN "write" ELSE "identify"]
    /\ UNCHANGED <<storeVars, ipToMAC, userBlocklists, AppConfig, calls, apiVars>>

\* lines 73 and 91: bm.RecordQueryWithClient(name, clientAddr, blocked); after
\* an allowed question the loop goes on to the next one
Record(h) ==
    /\ handlers[h].pc = "record"
    /\ handlers' = [handlers EXCEPT
           ![h].recorded = Append(@, [name |-> handlers[h].name, blocked |-> handlers[h].blocked,
                                      written |-> handlers[h].written]),
           ![h].qi = IF handlers[h].blocked THEN @ ELSE @ + 1,
           ![h].pc = IF handlers[h].blocked \/ handlers[h].qi = Len(handlers[h].questions)
                     THEN "write" ELSE "identify"]
    /\ UNCHANGED <<storeVars, ipToMAC, userBlocklists, AppConfig, calls, apiVars>>

\* lines 75 and 96: w.WriteMsg(&msg)
Write(h) ==
    /\ handlers[h].pc = "write"
    /\ handlers' = [handlers EXCEPT ![h].written = TRUE, ![h].writes = @ + 1,
                                    ![h].pc = "done"]
    /\ UNCHANGED <<storeVars, ipToMAC, userBlocklists, AppConfig, calls, apiVars>>

(***************************************************************************)
(* The state after construction.  NewBlocklistManager (lines 52-74) loads  *)
(* the directory once; the binding cache starts empty.                     *)
(***************************************************************************)
StoreInit(dir) ==
    /\ files = dir
    /\ dir0 = dir
    /\ lists = [gen |-> 0, val |-> ScanDir(dir)]
    /\ compiled = [gen |-> 0, val |-> CompileAll(ScanDir(dir))]
    /\ mu = NoWriter
    /\ made = MapPut(EmptyMap, 0, [lists |-> ScanDir(dir), compiled |-> CompileAll(ScanDir(dir))])

CallsInit == calls = [c \in CallIds |-> IdleCall]

HandlersInit == handlers = [h \in HandlerIds |-> IdleHandler]

\* NewAccountManager and NewBlocklistManager: no session, no request served,
\* an empty ring and an empty log
ApiInit ==
    /\ sessions = NoSession
    /\ now = 0
    /\ http = [c \in CallIds |-> IdleRequest]
    /\ recent = <<>>
    /\ logFile = <<>>
    /\ before = [c \in CallIds |-> NotEntered]
    /\ retired = {}
    /\ queries = 0
    /\ blockedQueries = 0
    /\ domainHits = EmptyMap
    /\ allHits = EmptyMap
    /\ clientHits = EmptyMap
    /\ appending = {}
    /\ deleting = [pc |-> "idle", n |-> 0, at |-> 0, err |-> FALSE]
    /\ returned = [op |-> "none"]
    /\ statsMu = NoHolder
    /\ recentMu = NoHolder
    /\ logMu = NoHolder
    /\ recording = NotRecording

\* rule and name strings of the concurrent specifications
sx == <<"x">>
sy == <<"y">>
sz == <<"z">>
swild == <<"*", ".", "x">>

(***************************************************************************)
(* SpecDNS: the DNS handler over a store that does not change.             *)
(***************************************************************************)
DnsDirs == {[n \in ListNames |-> IF n = "L1" THEN <<sx, swild>> ELSE <<sy>>]}

\* the rows of user_blocklists
DnsPolicy == [m \in MACs |-> IF m = "A" THEN {"L1"} ELSE {"L2"}]

\* the (client IP, device) pairs the control plane binds
Logins == {<<"ip1", "A">>, <<"ip2", "B">>}

\* blocking_mode as configured, and block_page_ip (used by "redirect")
DnsConfigs ==
    {[BlockingMode |-> m, BlockPageIP |-> <<>>] : m \in {"redirect", "null", "nx", "nxdomain"}}
    \cup {[BlockingMode |-> "redirect", BlockPageIP |-> <<"1","0",".","0",".","0",".","2">>]}

\* question names as they arrive: fully qualified
Qnames == {<<"x", ".">>, <<"y", ".">>, <<"a", ".", "x", ".">>}

Questions == [name : Qnames, qtype : Qtypes]

\* the questions a message may hold after its first one
LaterQuestions == [name : {<<"x", ".">>, <<"y", ".">>}, qtype : {"A", "AAAA"}]

Messages ==
    {qs \in UNION {[1..k -> Questions] : k \in 1..MaxQuestions} :
        \A i \in 2..Len(qs) : qs[i] \in LaterQuestions}

UpstreamOutcomes == {"error", "answer"}

InitDNS ==
    /\ \E dir \in DnsDirs : StoreInit(dir)
    /\ ipToMAC = EmptyMap
    /\ userBlocklists = DnsPolicy
    /\ AppConfig \in DnsConfigs
    /\ CallsInit
    /\ HandlersInit
    /\ ApiInit

NextDNS ==
    \/ \E l \in Logins : SetIPMAC(l[1], l[2])
    \/ \E h \in HandlerIds, ip \in IPs, qs \in Messages :
           handlers[h].pc = "idle" /\ Receive(h, ip, qs)
    \/ \E h \in HandlerIds, dbFails \in BOOLEAN : Identify(h, dbFails)
    \/ \E h \in HandlerIds : Match(h)
    \/ \E h \in HandlerIds, outcome \in UpstreamOutcomes : Forward(h, outcome)
    \/ \E h \in HandlerIds : Record(h)
    \/ \E h \in HandlerIds : Write(h)

SpecDNS == InitDNS /\ [][NextDNS]_vars

\* one step of the handler goroutine of message h: every step returns (the
\* exchange within its ReadTimeout of 5 s), so a handler that can step does
HandlerStep(h) ==
    \/ \E dbFails \in BOOLEAN : Identify(h, dbFails)
    \/ Match(h)
    \/ \E outcome \in UpstreamOutcomes : Forward(h, outcome)
    \/ Record(h)
    \/ Write(h)

\* messages whose questions all ask for A records
AMessages == {qs \in Messages : \A i \in 1..Len(qs) : qs[i].qtype = "A"}

NextReply ==
    \/ \E l \in Logins : SetIPMAC(l[1], l[2])
    \/ \E h \in HandlerIds, ip \in IPs, qs \in AMessages :
           handlers[h].pc = "idle" /\ Receive(h, ip, qs)
    \/ \E h \in HandlerIds, dbFails \in BOOLEAN : Identify(h, dbFails)
    \/ \E h \in HandlerIds : Match(h)
    \/ \E h \in HandlerIds, outcome \in UpstreamOutcomes : Forward(h, outcome)
    \/ \E h \in HandlerIds : Record(h)
    \/ \E h \in HandlerIds : Write(h)

\* SpecReply: the handler goroutine of a message keeps running
SpecReply ==
    InitDNS /\ [][NextReply]_vars /\ \A h \in HandlerIds : WF_vars(HandlerStep(h))

(***************************************************************************)
(* The reading of rules and replies that the claims use.                   *)
(***************************************************************************)
\* rule, read as a fully anchored pattern: '*' matches any run of
\* characters, every other character matches itself
RECURSIVE WildcardMatch(_, _)
WildcardMatch(rule, d) ==
    IF rule = <<>> THEN d = <<>>
    ELSE IF Head(rule) = "*"
         THEN \E n \in 0..Len(d) : WildcardMatch(Tail(rule), SubSeq(d, n + 1, Len(d)))
    ELSE d # <<>> /\ Head(d) = Head(rule) /\ WildcardMatch(Tail(rule), Tail(d))

\* a question name or domain, lowercased and without its trailing dot
NormDomain(name) == TrimSuffix(ToLower(name), <<".">>)

\* the rules of the lists device mac has enabled, in the current snapshot
EnabledRules(mac) ==
    UNION {Range(lists.val[n]) : n \in userBlocklists[mac] \cap DOMAIN lists.val}

\* d matches a rule of a list that mac has enabled
OnLists(mac, d) == \E r \in EnabledRules(mac) : WildcardMatch(r, d)

\* d matches a rule of some list of the snapshot
OnAnyList(d) == \E n \in DOMAIN lists.val : \E r \in Range(lists.val[n]) : WildcardMatch(r, d)

\* the handler has decided its current question and not yet gone on
Decided(h) == handlers[h].pc \in {"forward", "record"}

\* the handler's reply is a synthesized block response
BlockedReply(h) == handlers[h].blocked /\ handlers[h].pc \in {"record", "write", "done"}

CurQuestion(h) == handlers[h].questions[handlers[h].qi]

\* the records the reply holds from upstream: one answer section for each
\* exchange that answered, in the order of the exchanges
UpstreamCopied(h) ==
    LET f == SelectSeq(handlers[h].forwarded, LAMBDA e : e.outcome = "answer")
    IN  [i \in 1..Len(f) |-> UpstreamRecord(handlers[h].questions[f[i].about])]

\* block_page_ip as an address, 127.0.0.1 when unset
BlockPageAddr == IF AppConfig.BlockPageIP = <<>> THEN <<127, 0, 0, 1>> ELSE <<10, 0, 0, 2>>

\* the one A record the claims describe
SynthA(q, ttl, addr) == [name |-> q.name, rrtype |-> "A", class |-> "IN", ttl |-> ttl, a |-> addr]

C2_UnknownDeviceNotBlocked ==
    \A h \in HandlerIds :
        (Decided(h) /\ handlers[h].mac = "") => ~handlers[h].blocked

(***************************************************************************)
(* C4.  Synthesized A-record shape.  As claimed: for a blocked question    *)
(* the reply's answer section holds exactly one A record {question name,   *)
(* IN, TTL 60, block_page_ip or 127.0.0.1} for qtype A or ANY under        *)
(* 'redirect', exactly one A record 0.0.0.0 with TTL 0 under 'null', and   *)
(* is empty for any other qtype.                                           *)
(***************************************************************************)
C4_ExpectedSynth(h) ==
    LET q == CurQuestion(h)
    IN  IF q.qtype \notin {"A", "ANY"} THEN <<>>
        ELSE IF AppConfig.BlockingMode = "redirect" THEN <<SynthA(q, 60, BlockPageAddr)>>
        ELSE <<SynthA(q, 0, <<0, 0, 0, 0>>)>>

C4_AnswerIsExactlyTheARecord ==
    \A h \in HandlerIds :
        (BlockedReply(h) /\ AppConfig.BlockingMode \in {"redirect", "null"})
            => handlers[h].answer = C4_ExpectedSynth(h)

\* C4 as amended: the answer section holds the records copied from upstream
\* for the earlier, allowed questions of the message, followed by exactly
\* that A record (qtype A or ANY) or by nothing (any other qtype).
C4_SynthesizedRecordShape ==
    \A h \in HandlerIds :
        (BlockedReply(h) /\ AppConfig.BlockingMode \in {"redirect", "null"})
            => handlers[h].answer = UpstreamCopied(h) \o C4_ExpectedSynth(h)

\* a redirect reply for an A question that follows a forwarded, answered one
C4_Witness ==
    \E h \in HandlerIds :
        /\ BlockedReply(h)
        /\ handlers[h].pc = "done"
        /\ AppConfig.BlockingMode = "redirect"
        /\ CurQuestion(h).qtype = "A"
        /\ handlers[h].qi = 2
        /\ Len(handlers[h].answer) = 2

RuleAlphabet == {"a", ".", "*", "+"}
DomAlphabet == {"a", "b", ".", "+"}

MatchDirs ==
    {MapPut(EmptyMap, "L1", pre \o <<line>>) :
        pre \in {<<>>, <<<<"b">>>>}, line \in StringsUpTo(RuleAlphabet, MaxRuleLen)}

MatchDomains == StringsUpTo(DomAlphabet, MaxDomLen)

InitMatch ==
    /\ \E dir \in MatchDirs : StoreInit(dir)
    /\ ipToMAC = EmptyMap
    /\ userBlocklists = [m \in MACs |-> {}]
    /\ AppConfig = [BlockingMode |-> "redirect", BlockPageIP |-> <<>>]
    /\ CallsInit
    /\ HandlersInit
    /\ ApiInit

NextMatch == \E domain \in MatchDomains : IsBlocked(1, domain)

SpecMatch == InitMatch /\ [][NextMatch]_vars

\* every rule of the current snapshot
SnapshotRules == UNION {Range(lists.val[n]) : n \in DOMAIN lists.val}

\* call c is an IsBlocked that has returned
Looked(c) == calls[c].op = "isblocked" /\ calls[c].pc = "done"

\* the domain call c asked about, lowercased and trailing-dot-stripped
AskedDomain(c) == NormDomain(TrimSpace(calls[c].items[1]))

(***************************************************************************)
(* C3.  Rule matching.  As claimed: IsBlocked(d) is true exactly when at   *)
(* least one rule of the current snapshot, read as a fully anchored        *)
(* pattern in which '*' matches any run of characters and every other      *)
(* character (dots and regexp metacharacters too) matches only itself,     *)
(* matches d; checked for the domains that are left without a trailing dot. *)
(***************************************************************************)
C3_RuleMatchingAsClaimed ==
    \A c \in CallIds :
        (Looked(c) /\ ~HasSuffix(AskedDomain(c), <<".">>)) =>
            ((calls[c].ret = "true")
                <=> \E r \in SnapshotRules : WildcardMatch(r, AskedDomain(c)))

\* C3 as amended: IsBlocked(d) is true exactly when at least one rule of the
\* snapshot, with one trailing dot removed and then not empty, matches d as
\* such a fully anchored pattern.
C3_RuleMatching ==
    \A c \in CallIds :
        Looked(c) =>
            ((calls[c].ret = "true")
                <=> \E r \in SnapshotRules :
                        /\ TrimSuffix(r, <<".">>) # <<>>
                        /\ WildcardMatch(TrimSuffix(r, <<".">>), AskedDomain(c)))

\* a rule with a wildcard and a literal dot blocked a domain
C3_Witness ==
    \E c \in CallIds :
        /\ Looked(c)
        /\ calls[c].ret = "true"
        /\ \E r \in SnapshotRules :
               /\ "*" \in Range(r)
               /\ "." \in Range(r)
               /\ WildcardMatch(TrimSuffix(r, <<".">>), AskedDomain(c))

(***************************************************************************)
(* Spec: the blocklist store under concurrent control-plane calls.  Each   *)
(* call identifier runs one method, step by step, interleaved with the     *)
(* other.                                                                  *)
(***************************************************************************)
StoreDirs == {MapPut(EmptyMap, "L1", <<sx>>)}

\* the items of an AddItemsToList call
StoreItems == {its \in StringsUpTo({sy, sz}, MaxItems) : its # <<>>}

\* the domains asked of RemoveDomain and IsBlocked
StoreDomains == {sx, sy, sz}

Init ==
    /\ \E dir \in StoreDirs : StoreInit(dir)
    /\ ipToMAC = EmptyMap
    /\ userBlocklists = [m \in MACs |-> {}]
    /\ AppConfig = [BlockingMode |-> "redirect", BlockPageIP |-> <<>>]
    /\ CallsInit
    /\ HandlersInit
    /\ ApiInit

Next ==
    \E c \in CallIds :
        \/ \E name \in ListNames, items \in StoreItems, create \in BOOLEAN :
               AddItemsRead(c, name, items, create)
        \/ \E name \in ListNames, domain \in StoreDomains : RemoveDomainLocked(c, name, domain)
        \/ CreateFile(c)
        \/ WriteLine(c)
        \/ Reload(c)
        \/ LoadAllReadDir(c)
        \/ LoadAllOpen(c)
        \/ LoadAllSetLists(c)
        \/ LoadAllSetCompiled(c)
        \/ \E domain \in StoreDomains : IsBlocked(c, domain)
        \/ \E name \in ListNames : ListDomainsRead(c, name)
        \/ ListDomainsFilter(c)

Spec == Init /\ [][Next]_vars

(***************************************************************************)
(* What the calls of a state would give one after the other.               *)
(***************************************************************************)
\* the rule sets of a directory, list by list, as loading it gives them
RuleSets(dir) == [n \in DOMAIN dir |-> Range(readLines[dir[n]])]

\* the rule sets of the in-memory snapshot
SnapshotSets == [n \in DOMAIN lists.val |-> Range(lists.val[n])]

\* the rules that a file holding the lines S loads as
LoadedFrom(S) == UNION {Range(LineDomains[k]) : k \in S}

\* AddItemsToList run alone on a store whose lists hold rs
SeqAddItems(rs, name, items, create) ==
    IF name \notin DOMAIN rs /\ ~create THEN rs
    ELSE LET old == IF name \in DOMAIN rs THEN {normalizePattern[r] : r \in rs[name]} \ {<<>>}
                    ELSE {}
         IN  MapPut(rs, name, LoadedFrom(old \cup Range(ItemTokens[items])))

\* RemoveDomain run alone
SeqRemoveDomain(rs, name, domain) ==
    IF name \in DOMAIN rs /\ normalizePattern[domain] \in rs[name]
    THEN MapPut(rs, name, LoadedFrom(rs[name] \ {normalizePattern[domain]}))
    ELSE rs

\* call c run alone
SeqCall(rs, c) ==
    IF calls[c].op = "additems"
    THEN SeqAddItems(rs, calls[c].name, calls[c].items, calls[c].create)
    ELSE IF calls[c].op = "remove"
    THEN SeqRemoveDomain(rs, calls[c].name, calls[c].items[1])
    ELSE rs

\* the calls of order run one after the other from rs
RECURSIVE SeqRun(_, _)
SeqRun(rs, order) == IF order = <<>> THEN rs ELSE SeqRun(SeqCall(rs, Head(order)), Tail(order))

Mutators == {c \in CallIds : calls[c].op \in {"additems", "remove"}}

Started == {c \in CallIds : calls[c].op # "none"}

\* no call is under way
Quiet == \A c \in CallIds : calls[c].pc \in {"idle", "done"}

\* call c is an AddItemsToList that has returned without an error
Added(c) == calls[c].op = "additems" /\ calls[c].pc = "done" /\ calls[c].err = ""

(***************************************************************************)
(* C6.  Concurrent list mutators are serialized: when the mutator calls    *)
(* have all returned, the list files and the in-memory snapshot hold the   *)
(* rules that running those calls in some sequential order gives; two      *)
(* concurrent appends of different items both end up in the list.          *)
(***************************************************************************)
C6_MutatorsSerialized ==
    (Quiet /\ Started = Mutators) =>
        \E order \in Perms(Mutators) :
            /\ RuleSets(files) = SeqRun(RuleSets(dir0), order)
            /\ SnapshotSets = SeqRun(RuleSets(dir0), order)

(***************************************************************************)
(* C7.  Post-mutation visibility: once AddItemsToList has returned         *)
(* successfully (it being the only mutator), a blocking decision that      *)
(* takes the read lock afterwards is evaluated against a snapshot with the *)
(* added rules, also when another LoadAll scanned the directory before the *)
(* mutation and installs its result concurrently.                          *)
(***************************************************************************)
C7_PostMutationVisibility ==
    \A c \in CallIds :
        (Added(c) /\ Mutators = {c} /\ mu = NoWriter) =>
            \A t \in Range(ItemTokens[calls[c].items]) :
                /\ t \in Range(lists.val[calls[c].name])
                /\ IsBlockedIn(compiled.val, t)

(***************************************************************************)
(* C9.  No torn snapshot: whenever a reader can take the read lock, the    *)
(* list map and the compiled matcher are those of one LoadAll; every       *)
(* reader (IsBlocked, ListDomains) has seen the two of the same LoadAll,   *)
(* and the slice ListDomains took is still the one that LoadAll built.     *)
(***************************************************************************)
C9_NoTornSnapshot ==
    /\ mu = NoWriter =>
           /\ lists.gen = compiled.gen
           /\ lists.val = made[lists.gen].lists
           /\ compiled.val = made[lists.gen].compiled
    /\ \A c \in CallIds :
           calls[c].op \in {"isblocked", "listdomains"} =>
               /\ calls[c].gen = calls[c].cgen
               /\ (calls[c].pc = "filter" =>
                       calls[c].arr = made[calls[c].gen].lists[calls[c].name])

\* ListDomains holds a slice of the first snapshot while a reload has
\* installed the next one
C9_Witness ==
    \E c \in CallIds, r \in CallIds :
        /\ calls[c].op = "listdomains"
        /\ calls[c].pc = "filter"
        /\ calls[c].gen = 0
        /\ calls[r].pc = "done"
        /\ lists.gen = r
        /\ compiled.gen = r

(***************************************************************************)
(* SpecHot: queries for z arrive from A's IP again and again while one     *)
(* AddItemsToList(L1, [z], true) runs; A has L1 enabled.  Every goroutine  *)
(* that can take a step eventually takes it.                               *)
(***************************************************************************)
HotQuestions == {<<[name |-> <<"z", ".">>, qtype |-> t]>> : t \in {"A", "AAAA"}}

InitHot ==
    /\ StoreInit(MapPut(EmptyMap, "L1", <<sx>>))
    /\ ipToMAC = MapPut(EmptyMap, "ip1", "A")
    /\ userBlocklists = [m \in MACs |-> IF m = "A" THEN {"L1"} ELSE {}]
    /\ AppConfig = [BlockingMode |-> "redirect", BlockPageIP |-> <<>>]
    /\ CallsInit
    /\ HandlersInit
    /\ ApiInit

HotQuery(h) ==
    \/ \E qs \in HotQuestions : Receive(h, "ip1", qs)
    \/ \E dbFails \in BOOLEAN : Identify(h, dbFails)
    \/ Match(h)
    \/ \E outcome \in UpstreamOutcomes : Forward(h, outcome)
    \/ Record(h)
    \/ Write(h)

HotAdd(c) ==
    \/ AddItemsRead(c, "L1", <<sz>>, TRUE)
    \/ CreateFile(c)
    \/ WriteLine(c)
    \/ LoadAllReadDir(c)
    \/ LoadAllOpen(c)
    \/ LoadAllSetLists(c)
    \/ LoadAllSetCompiled(c)

NextHot == (\E h \in HandlerIds : HotQuery(h)) \/ HotAdd(1)

SpecHot ==
    /\ InitHot
    /\ [][NextHot]_vars
    /\ \A h \in HandlerIds : WF_vars(HotQuery(h))
    /\ WF_vars(HotAdd(1))

\* the handler has decided a question for z from A's device and the lookup
\* of A's enabled lists answered
HotDecided(h) ==
    /\ Decided(h)
    /\ handlers[h].name = sz
    /\ handlers[h].mac = "A"
    /\ ~handlers[h].lookup.err

AppendPriors == {<<>>, <<sx>>, <<<<"a", ".", ".">>>>}

\* the item strings of the call
AppendItemStrings ==
    { <<"y">>,
      <<"A">>,
      <<"a", ",", "x">>,
      <<" ", "y", ".", " ">>,
      <<"1", ".", "2", ".", "3", ".", "4">>,
      <<"l", "o", "c", "a", "l", "h", "o", "s", "t">>,
      <<"f", "f", "x">>,
      <<"a", "#", "b">>,
      <<"#", "a">>,
      <<"y", ".", ".">>,
      <<",">> }

AppendItems == {its \in StringsUpTo(AppendItemStrings, MaxItems) : its # <<>>}

InitAppend ==
    /\ \E lines \in AppendPriors : StoreInit(MapPut(EmptyMap, "L1", lines))
    /\ ipToMAC = EmptyMap
    /\ userBlocklists = [m \in MACs |-> {}]
    /\ AppConfig = [BlockingMode |-> "redirect", BlockPageIP |-> <<>>]
    /\ CallsInit
    /\ HandlersInit
    /\ ApiInit

NextAppend ==
    \/ \E name \in ListNames, items \in AppendItems : AddItemsRead(1, name, items, TRUE)
    \/ CreateFile(1)
    \/ WriteLine(1)
    \/ LoadAllReadDir(1)
    \/ LoadAllOpen(1)
    \/ LoadAllSetLists(1)
    \/ LoadAllSetCompiled(1)

SpecAppend == InitAppend /\ [][NextAppend]_vars

\* the rules list n held before the call
PriorRules(n) == IF n \in DOMAIN dir0 THEN RuleSets(dir0)[n] ELSE {}

\* the normalized (trimmed, lowercased, trailing dot removed) non-empty tokens
\* of the items, split on commas and whitespace
NormalizedTokens(items) ==
    LET sep  == {",", " ", "\t", "\n", "\r"}
        toks == UNION {Range(FieldsFunc[items[i], sep]) : i \in 1..Len(items)}
    IN  {NormDomain(TrimSpace(t)) : t \in toks} \ {<<>>}

\* what a written entry k is read back as: the text from a '#' on is cut, a
\* trailing dot is removed once more; <<>> when nothing is left or the entry
\* is an IP literal or a local host name
ReadBack(k) ==
    LET cut == IF IndexOf(k, "#") > 0 THEN SubSeq(k, 1, IndexOf(k, "#") - 1) ELSE k
        n   == NormDomain(TrimSpace(cut))
    IN  IF n = <<>> \/ isIPString(n) \/ isLocalHostName(n) THEN <<>> ELSE n

sxdd == <<"x", ".", ".">>

\* the lines L1.txt may hold at the start
SeqPriors == {<<sx>>, <<sx, sxdd>>, <<sxdd, sy>>, <<<<"*">>, sx>>}

\* the items of AddItemsToList and the domains of RemoveDomain
SeqItems == {<<sy>>}
SeqDomains == {sx, sy, <<"X">>}

InitSeq ==
    /\ \E lines \in SeqPriors : StoreInit(MapPut(EmptyMap, "L1", lines))
    /\ ipToMAC = EmptyMap
    /\ userBlocklists = [m \in MACs |-> {}]
    /\ AppConfig = [BlockingMode |-> "redirect", BlockPageIP |-> <<>>]
    /\ CallsInit
    /\ HandlersInit
    /\ ApiInit

NextSeq ==
    \/ Enter(1)
    \/ \E name \in ListNames, items \in SeqItems, create \in BOOLEAN :
           before[1].entered /\ AddItemsRead(1, name, items, create)
    \/ \E name \in ListNames, fetch \in Fetches, create \in BOOLEAN :
           before[1].entered /\ AddFileRead(1, name, fetch, create)
    \/ \E name \in ListNames, domain \in SeqDomains :
           before[1].entered /\ RemoveDomainLocked(1, name, domain)
    \/ before[1].entered /\ Reload(1)
    \/ CreateFile(1)
    \/ CreateFails(1)
    \/ WriteLine(1)
    \/ WriteFails(1)
    \/ LoadAllReadDir(1)
    \/ LoadAllReadDirFails(1)
    \/ LoadAllOpen(1)
    \/ LoadAllSetLists(1)
    \/ LoadAllSetCompiled(1)

SpecSeq == InitSeq /\ [][NextSeq]_vars

\* the rule sets of a list map
SetsOf(ls) == [n \in DOMAIN ls |-> Range(ls[n])]

\* call record r is a method that has returned
Returned(r) == r.pc = "done"

\* call record r is a LoadAll (POST /reload) that has returned nil
Reloaded(r) == r.op = "reload" /\ Returned(r) /\ r.err = ""

\* call record r is a list mutator that has returned without an error
MutatorSucceeded(r) ==
    r.op \in {"additems", "addfile", "remove"} /\ Returned(r) /\ r.err = ""

(***************************************************************************)
(* C11.  Reload idempotence: two consecutive LoadAll calls over the same   *)
(* directory contents publish snapshots with the same list names, the same *)
(* rule set per list and the same IsBlocked verdict for every domain; and  *)
(* after any successful mutator the rule set re-parsed from each list file *)
(* equals the in-memory list.                                              *)
(***************************************************************************)
C11_ReloadIdempotence ==
    /\ (Reloaded(calls[1]) /\ Reloaded(before[1].prev)) =>
           /\ SetsOf(lists.val) = SetsOf(before[1].lists)
           /\ \A d \in SeqDomains :
                  IsBlockedIn(compiled.val, d) <=> IsBlockedIn(before[1].compiled, d)
    /\ MutatorSucceeded(calls[1]) => RuleSets(files) = SetsOf(lists.val)

(***************************************************************************)
(* What RemoveDomain was asked and what it found.                          *)
(***************************************************************************)
\* call 1 is a RemoveDomain that has returned
Removed == calls[1].op = "remove" /\ Returned(calls[1])

\* the normalized domain it was asked to remove
RemDomain == normalizePattern[calls[1].items[1]]

\* the rules the in-memory list held when it was called
RemOld == IF calls[1].name \in DOMAIN before[1].lists
          THEN Range(before[1].lists[calls[1].name]) ELSE {}

\* the rules of the list now: in the file as re-parsed, and in the snapshot
RemFileRules == IF calls[1].name \in DOMAIN files THEN RuleSets(files)[calls[1].name] ELSE {}
RemSnapRules == IF calls[1].name \in DOMAIN lists.val
                THEN Range(lists.val[calls[1].name]) ELSE {}

\* IsBlocked(d) under the snapshot that holds this list alone
RemStillBlocked ==
    /\ calls[1].name \in DOMAIN lists.val
    /\ IsBlockedIn(CompileAll(MapPut(EmptyMap, calls[1].name, lists.val[calls[1].name])),
                   RemDomain)

\* it returned false and left file and snapshot as they were
RemNoChange ==
    /\ calls[1].ret = "false"
    /\ files = before[1].files
    /\ lists.val = before[1].lists
    /\ compiled.val = before[1].compiled

C13_NoPartialUpdate ==
    (/\ Returned(calls[1])
     /\ \/ /\ calls[1].op \in {"additems", "addfile", "remove"}
           /\ calls[1].err \in {"fetch", "status", "create", "write"}
        \/ /\ calls[1].op = "reload"
           /\ calls[1].err = "readdir")
        => /\ files = before[1].files
           /\ lists.val = before[1].lists
           /\ compiled.val = before[1].compiled

(***************************************************************************)
(* The telemetry calls of one DNS message.                                 *)
(***************************************************************************)
\* the questions the handler has evaluated when it writes the reply: all of
\* them, or those up to the blocked one
Evaluated(h) ==
    IF handlers[h].blocked THEN handlers[h].qi ELSE Len(handlers[h].questions)

\* the match name of question i of the message: its name without the one
\* trailing dot
MatchName(h, i) ==
    LET n == handlers[h].questions[i].name
    IN  IF Len(n) > 0 /\ n[Len(n)] = "." THEN SubSeq(n, 1, Len(n) - 1) ELSE n

C15_AuthoritativeBit ==
    \A h \in HandlerIds :
        handlers[h].written => (handlers[h].aa <=> handlers[h].blocked)

(***************************************************************************)
(* C16.  Reply despite upstream failure: every decoded DNS message gets    *)
(* exactly one reply written; when the exchange for a question that is not *)
(* blocked times out or fails, the reply still is sent, the question adds  *)
(* no record to its answer section (which holds the records of the         *)
(* exchanges that answered, then the synthesized ones), and the RCODE      *)
(* stays NOERROR unless a blocked question set NXDOMAIN.                   *)
(***************************************************************************)
C16_ReplyDespiteUpstreamFailure ==
    /\ [](\A h \in HandlerIds :
            /\ handlers[h].writes <= 1
            /\ (handlers[h].pc = "done") = (handlers[h].writes = 1)
            /\ handlers[h].written =>
                  /\ SubSeq(handlers[h].answer, 1,
                            Len(handlers[h].answer) - handlers[h].nsynth) = UpstreamCopied(h)
                  /\ handlers[h].rcode =
                         IF handlers[h].blocked /\ AppConfig.BlockingMode = "nx" THEN 3 ELSE 0
                  /\ (/\ ~handlers[h].blocked
                      /\ \A i \in 1..Len(handlers[h].forwarded) :
                             handlers[h].forwarded[i].outcome = "error")
                         => handlers[h].answer = <<>>)
    /\ \A h \in HandlerIds : (handlers[h].pc = "identify") ~> (handlers[h].writes = 1)

\* the exchange failed for the first question and answered for the second;
\* the reply was written with the one record and NOERROR
C16_Witness ==
    \E h \in HandlerIds :
        /\ handlers[h].written /\ ~handlers[h].blocked
        /\ Len(handlers[h].forwarded) = 2
        /\ handlers[h].forwarded[1].outcome = "error"
        /\ handlers[h].forwarded[2].outcome = "answer"
        /\ handlers[h].answer = <<UpstreamRecord(handlers[h].questions[2])>>
        /\ handlers[h].rcode = 0

(***************************************************************************)
(* SpecMulti: the DNS handler on messages of up to MaxMultiQuestions       *)
(* questions.                                                              *)
(***************************************************************************)
MultiQuestions == [name : {<<"x", ".">>, <<"y", ".">>}, qtype : {"A"}]

MultiMessages == UNION {[1..k -> MultiQuestions] : k \in 1..MaxMultiQuestions}

NextMulti ==
    \/ \E l \in Logins : SetIPMAC(l[1], l[2])
    \/ \E h \in HandlerIds, ip \in IPs, qs \in MultiMessages :
           handlers[h].pc = "idle" /\ Receive(h, ip, qs)
    \/ \E h \in HandlerIds, dbFails \in BOOLEAN : Identify(h, dbFails)
    \/ \E h \in HandlerIds : Match(h)
    \/ \E h \in HandlerIds, outcome \in UpstreamOutcomes : Forward(h, outcome)
    \/ \E h \in HandlerIds : Record(h)
    \/ \E h \in HandlerIds : Write(h)

SpecMulti == InitDNS /\ [][NextMulti]_vars

\* the handler was at its blocked question and has stopped the loop
Stopped(h) == handlers[h].blocked /\ handlers[h].pc \in {"write", "done"}

\* the questions are taken in order: exchange i and telemetry call i are
\* those of question i; only the last evaluated question can be the blocked one
InOrder(h) ==
    /\ \A i \in 1..Len(handlers[h].forwarded) : handlers[h].forwarded[i].qi = i
    /\ \A i \in 1..Len(handlers[h].recorded) :
           /\ handlers[h].recorded[i].name = MatchName(h, i)
           /\ handlers[h].recorded[i].blocked => i = handlers[h].qi /\ handlers[h].blocked

\* after the block: one exchange and one telemetry call for each question
\* before the blocked one, one telemetry call for the blocked one, nothing
\* for a later one, and the upstream's answers ahead of the synthesized records
ShortCircuit(h) ==
    Stopped(h) =>
        /\ Len(handlers[h].forwarded) = handlers[h].qi - 1
        /\ Len(handlers[h].recorded) = handlers[h].qi
        /\ handlers[h].recorded[handlers[h].qi].blocked
        /\ SubSeq(handlers[h].answer, 1,
                  Len(handlers[h].answer) - handlers[h].nsynth) = UpstreamCopied(h)

\* after a block the next steps of the handler are the telemetry call, the
\* write of the reply and the return
RepliesAtOnce(h) ==
    handlers'[h] # handlers[h] =>
        /\ (handlers[h].blocked /\ handlers[h].pc = "record") => handlers'[h].pc = "write"
        /\ (handlers[h].blocked /\ handlers[h].pc = "write") => handlers'[h].pc = "done"
        /\ ~(handlers[h].blocked /\ handlers[h].pc = "done")

(***************************************************************************)
(* C17, as claimed.  Multi-question short-circuit: questions of one DNS    *)
(* message are evaluated in order; the first blocked question causes the   *)
(* reply to be sent immediately and no later question of that message is   *)
(* evaluated, forwarded upstream, or recorded; questions before it were    *)
(* each forwarded and their upstream answers are in the reply.             *)
(***************************************************************************)
C17_ShortCircuitAsClaimed ==
    \A h \in HandlerIds :
        /\ InOrder(h)
        /\ ShortCircuit(h)
        /\ Stopped(h) =>
               \A i \in 1..Len(handlers[h].forwarded) :
                   \A j \in (handlers[h].qi + 1)..Len(handlers[h].questions) :
                       j \notin DOMAIN handlers[h].forwarded[i].sent

(***************************************************************************)
(* C17, amended.  Multi-question short-circuit: questions of one DNS       *)
(* message are evaluated in order; the first blocked question causes the   *)
(* reply to be sent immediately (after its telemetry call) and no later    *)
(* question of that message is evaluated or recorded and no exchange with  *)
(* the upstream is made for it; for each question before it one exchange   *)
(* was made, which sent the whole message, later questions included, and   *)
(* the answers the upstream gave to these exchanges are in the reply.      *)
(***************************************************************************)
C17_ShortCircuit ==
    /\ [](\A h \in HandlerIds :
            /\ InOrder(h)
            /\ ShortCircuit(h)
            /\ \A i \in 1..Len(handlers[h].forwarded) :
                   handlers[h].forwarded[i].sent = handlers[h].questions)
    /\ [][\A h \in HandlerIds : RepliesAtOnce(h)]_vars

\* three questions: the first was forwarded and answered, the second was
\* blocked, the reply was written and the third never looked at
C17_Witness ==
    \E h \in HandlerIds :
        /\ handlers[h].written /\ handlers[h].blocked
        /\ Len(handlers[h].questions) = 3
        /\ handlers[h].qi = 2
        /\ Len(handlers[h].forwarded) = 1
        /\ handlers[h].forwarded[1].outcome = "answer"
        /\ Len(handlers[h].answer) = 1 + handlers[h].nsynth

(***************************************************************************)
(* The AccountManager's sessions (src/rustdns/run-windows-portproxy.ps1    *)
(* holds its Go source) and the authenticated control API                  *)
(* (StartInternalAPIServerWithAuth and the handlers of apihandlers.go).    *)
(***************************************************************************)
\* the session ids generateSessionID draws
SessionIds == {"s1"}

\* what a request carries in X-Session-ID: nothing, an id that
\* generateSessionID drew, or one it never drew
SentIds == SessionIds \cup {"", "s0"}

\* ExpiresAt - CreatedAt: 24 hours, in ticks of 12 hours
SessionTTL == 2

\* the devices that log in, with or without an account
SessionLogins == {[mac |-> "A", guest |-> FALSE], [mac |-> "A", guest |-> TRUE],
                  [mac |-> "B", guest |-> FALSE]}

\* m without key k
MapDel(m, k) == [n \in DOMAIN m \ {k} |-> m[n]]

\* createSession, lines 221-236, with a fresh random id
createSession(sid, mac, guest) ==
    /\ sid \notin DOMAIN sessions \cup retired
    /\ sessions' = [s \in DOMAIN sessions \cup {sid} |->
                       IF s = sid THEN [mac |-> mac, guest |-> guest, expires |-> now + SessionTTL]
                       ELSE sessions[s]]
    /\ UNCHANGED <<storeVars, dnsVars, calls, now, http, recent, logFile, before, retired, telVars>>

\* a lookup that does not look at ExpiresAt
GetSessionNoExpiry(sid) ==
    IF sid \notin DOMAIN sessions THEN [err |-> TRUE, mac |-> "", guest |-> FALSE]
    ELSE [err |-> FALSE, mac |-> sessions[sid].mac, guest |-> sessions[sid].guest]

\* GetSession, lines 239-253: unknown ids and sessions past ExpiresAt fail
GetSession(sid) ==
    IF sid \notin DOMAIN sessions THEN [err |-> TRUE, mac |-> "", guest |-> FALSE]
    ELSE IF now > sessions[sid].expires THEN [err |-> TRUE, mac |-> "", guest |-> FALSE]
    ELSE [err |-> FALSE, mac |-> sessions[sid].mac, guest |-> sessions[sid].guest]

\* POST /auth/logout (part_006 lines 176-196): InvalidateSession, lines 256-261
InvalidateSession(sid) ==
    /\ sid \in DOMAIN sessions
    /\ sessions' = MapDel(sessions, sid)
    /\ retired' = retired \cup {sid}
    /\ UNCHANGED <<storeVars, dnsVars, calls, now, http, recent, logFile, before, telVars>>

\* cleanupSessions, lines 326-341: one round of the hourly ticker
cleanupSessions ==
    /\ \E s \in DOMAIN sessions : now > sessions[s].expires
    /\ sessions' = [s \in {t \in DOMAIN sessions : ~(now > sessions[t].expires)} |-> sessions[s]]
    /\ retired' = retired \cup {t \in DOMAIN sessions : now > sessions[t].expires}
    /\ UNCHANGED <<storeVars, dnsVars, calls, now, http, recent, logFile, before, telVars>>

\* time passes
Advance ==
    /\ now < MaxNow
    /\ now' = now + 1
    /\ UNCHANGED <<storeVars, dnsVars, calls, sessions, http, recent, logFile, before, retired, telVars>>

\* b.recentCap, blocklist.go line 66
recentCap == 500

\* a Go map of counters read at a key: 0 when the key is missing
Hits(m, k) == IF k \in DOMAIN m THEN m[k] ELSE 0

\* counters that count every query as blocked
countQueryAsBlocked(domain, client, blocked) ==
    /\ queries' = queries + 1
    /\ blockedQueries' = blockedQueries + 1
    /\ domainHits' = MapPut(domainHits, domain, Hits(domainHits, domain) + 1)
    /\ allHits' = MapPut(allHits, domain, Hits(allHits, domain) + 1)
    /\ clientHits' = IF client # ""
                     THEN MapPut(clientHits, client, Hits(clientHits, client) + 1)
                     ELSE clientHits

\* counters that note a blocked domain once, however often it is hit
countQueryOneHit(domain, client, blocked) ==
    /\ queries' = queries + 1
    /\ blockedQueries' = IF blocked THEN blockedQueries + 1 ELSE blockedQueries
    /\ domainHits' = IF blocked THEN MapPut(domainHits, domain, 1) ELSE domainHits
    /\ allHits' = MapPut(allHits, domain, Hits(allHits, domain) + 1)
    /\ clientHits' = IF client # ""
                     THEN MapPut(clientHits, client, Hits(clientHits, client) + 1)
                     ELSE clientHits

\* RecordQueryWithClient, blocklist.go lines 326-336 (RecordQuery, lines
\* 303-310, with no client): the counters, under b.statsMu
countQuery(domain, client, blocked) ==
    /\ queries' = queries + 1
    /\ blockedQueries' = IF blocked THEN blockedQueries + 1 ELSE blockedQueries
    /\ domainHits' = IF blocked
                     THEN MapPut(domainHits, domain, Hits(domainHits, domain) + 1)
                     ELSE domainHits
    /\ allHits' = MapPut(allHits, domain, Hits(allHits, domain) + 1)
    /\ clientHits' = IF client # ""
                     THEN MapPut(clientHits, client, Hits(clientHits, client) + 1)
                     ELSE clientHits

\* a ring that drops the newest entries beyond its capacity
appendRecentDropsNewest(ring, entry) ==
    LET grown == Append(ring, entry)
    IN  IF Len(grown) > recentCap THEN SubSeq(grown, 1, recentCap) ELSE grown

\* lines 341-345 (314-318): b.recent = append(b.recent, entry), and the oldest
\* entries beyond b.recentCap dropped
appendRecent(ring, entry) ==
    LET grown == Append(ring, entry)
        drop  == Len(grown) - recentCap
    IN  IF Len(grown) > recentCap THEN SubSeq(grown, drop + 1, Len(grown)) ELSE grown

\* QueryEntry, line 340.  n is the number of the record call that made the
\* entry: it stands for Time, which tells the entries apart and which the
\* ring and the log never read.
QueryEntry(n, domain, client, blocked) ==
    [n |-> n, domain |-> domain, client |-> client, blocked |-> blocked]

\* the DeleteLogs call: not running
NoDelete == [pc |-> "idle", n |-> 0, at |-> 0, err |-> FALSE]

\* no GetLogs, GetStats result at hand
NoRes == [op |-> "none"]

\* RecordQueryWithClient, blocklist.go lines 325-348: the counters, the ring,
\* and go b.appendLog(entry) (line 347), which starts the goroutine that
\* writes the entry to logs.jsonl
RecordQueryWithClient(domain, client, blocked) ==
    /\ countQuery(domain, client, blocked)
    /\ LET entry == QueryEntry(queries + 1, domain, client, blocked)
       IN  /\ recent' = appendRecent(recent, entry)
           /\ appending' = appending \cup {entry}
    /\ returned' = NoRes
    /\ UNCHANGED <<storeVars, dnsVars, calls, sessions, now, http, logFile, before, retired,
                   deleting,
                   lockVars>>

\* appendLog, lines 351-372, run by its goroutine: under b.logMu (which a
\* DeleteLogs between its two steps holds) the entry is appended to
\* logs.jsonl; a failed open or write is logged and the entry is lost
appendLog(e, ok) ==
    /\ e \in appending
    /\ deleting.pc # "truncated"
    /\ appending' = appending \ {e}
    /\ logFile' = IF ok THEN Append(logFile, e) ELSE logFile
    /\ UNCHANGED <<storeVars, dnsVars, calls, sessions, now, http, recent, before, retired,
                   statVars, deleting, returned,
                   lockVars>>

\* the request paths; "n" is the one list name the requests use
Paths ==
    {"/lists/create", "/lists/items/n", "/lists/", "/lists/n/append", "/lists/n/delete",
     "/lists/n/replace", "/analytics", "/logs", "/reload"}

Methods == {"GET", "POST", "DELETE"}

\* request bodies: not JSON, {"name","items"}, {"name","url"}, {"domain"}
Bodies == {"bad", "items", "url", "domain"}

\* the requests: a body goes with the methods and paths whose handler decodes one
Requests ==
    {r \in [method : Methods, path : Paths, body : Bodies \cup {""}] :
        (r.body # "") =
            \/ r.method = "POST" /\ r.path \in {"/lists/create", "/lists/n/append",
                                                "/lists/n/replace"}
            \/ r.method = "DELETE" /\ r.path = "/lists/items/n"}

\* fmt.Sprintf("%s_%s", userMAC, name) for the name "n" (apihandlers.go lines
\* 81, 118, 225): one list file for each device
UserListName(mac) == IF mac = "A" THEN "L1" ELSE "L2"

\* the endpoints wrapped by guestAllowedMiddleware (part_006 lines 333-370);
\* /reload is wrapped by authMiddleware (line 373)
GuestAllowedPaths == Paths \ {"/reload"}

\* a middleware that lets a guest through whatever the method
guestAllowedMiddlewareAnyMethod(sid, method) ==
    IF sid = "" THEN [status |-> 401, mac |-> "", guest |-> FALSE]
    ELSE LET s == GetSession(sid)
         IN  IF s.err THEN [status |-> 401, mac |-> "", guest |-> FALSE]
             ELSE [status |-> 0, mac |-> s.mac, guest |-> s.guest]

\* guestAllowedMiddleware, part_006 lines 297-322: status 0 stands for next(w, r)
guestAllowedMiddleware(sid, method) ==
    IF sid = "" THEN [status |-> 401, mac |-> "", guest |-> FALSE]
    ELSE LET s == GetSession(sid)
         IN  IF s.err THEN [status |-> 401, mac |-> "", guest |-> FALSE]
             ELSE IF s.guest /\ method # "GET" THEN [status |-> 403, mac |-> "", guest |-> FALSE]
             ELSE [status |-> 0, mac |-> s.mac, guest |-> s.guest]

\* authMiddleware, part_006 lines 273-294
authMiddleware(sid) ==
    IF sid = "" THEN [status |-> 401, mac |-> "", guest |-> FALSE]
    ELSE LET s == GetSession(sid)
         IN  IF s.err THEN [status |-> 401, mac |-> "", guest |-> FALSE]
             ELSE [status |-> 0, mac |-> s.mac, guest |-> s.guest]

\* the handler up to its call of the store: the status it answers at once,
\* or 0 and the call it makes
\* handleListCreate, apihandlers.go lines 19-89
handleListCreate(method, guest, body) ==
    IF method # "POST" THEN [status |-> 405, call |-> "none"]
    ELSE IF guest THEN [status |-> 403, call |-> "none"]
    ELSE IF body = "bad" THEN [status |-> 400, call |-> "none"]
    ELSE IF body = "domain" THEN [status |-> 400, call |-> "none"]
    ELSE IF body = "url" THEN [status |-> 0, call |-> "create_url"]
    ELSE [status |-> 0, call |-> "create_items"]

\* handleListItems, lines 107-186
handleListItems(method, guest, body) ==
    IF method = "GET" THEN [status |-> 0, call |-> "listdomains"]
    ELSE IF method = "DELETE"
    THEN IF guest THEN [status |-> 403, call |-> "none"]
         ELSE IF body # "domain" THEN [status |-> 400, call |-> "none"]
         ELSE [status |-> 0, call |-> "remove"]
    ELSE [status |-> 405, call |-> "none"]

\* handleLists with an empty rest of the path, lines 194-220
handleListsRoot(method) ==
    IF method # "GET" THEN [status |-> 405, call |-> "none"]
    ELSE [status |-> 200, call |-> "none"]

\* handleLists, append, lines 227-283
handleListsAppend(method, guest, body) ==
    IF method # "POST" THEN [status |-> 405, call |-> "none"]
    ELSE IF guest THEN [status |-> 403, call |-> "none"]
    ELSE IF body = "bad" THEN [status |-> 400, call |-> "none"]
    ELSE IF body = "url" THEN [status |-> 0, call |-> "append_url"]
    ELSE IF body = "items" THEN [status |-> 0, call |-> "append_items"]
    ELSE [status |-> 400, call |-> "none"]

\* handleLists, delete, lines 285-294
handleListsDelete(method, guest) ==
    IF method # "DELETE" THEN [status |-> 405, call |-> "none"]
    ELSE IF guest THEN [status |-> 403, call |-> "none"]
    ELSE [status |-> 0, call |-> "delete"]

\* handleLists, replace, lines 314-330
handleListsReplace(method, guest, body) ==
    IF method # "POST" THEN [status |-> 405, call |-> "none"]
    ELSE IF guest THEN [status |-> 403, call |-> "none"]
    ELSE IF body = "bad" THEN [status |-> 400, call |-> "none"]
    ELSE [status |-> 0, call |-> "replace"]

\* /analytics, part_006 lines 346-365
handleAnalytics(method) ==
    IF method # "GET" THEN [status |-> 405, call |-> "none"]
    ELSE [status |-> 200, call |-> "none"]

\* handleLogs, apihandlers.go lines 346-378
handleLogs(method, guest) ==
    IF method = "GET" THEN [status |-> 200, call |-> "none"]
    ELSE IF method = "DELETE"
    THEN IF guest THEN [status |-> 403, call |-> "none"]
         ELSE [status |-> 0, call |-> "deletelogs"]
    ELSE [status |-> 405, call |-> "none"]

\* /reload, part_006 lines 373-385
handleReload(method, guest) ==
    IF method # "POST" THEN [status |-> 405, call |-> "none"]
    ELSE IF guest THEN [status |-> 403, call |-> "none"]
    ELSE [status |-> 0, call |-> "reload"]

\* the mux of StartInternalAPIServerWithAuth, part_006 lines 333-390: the
\* middleware of the path and, when it calls next, the handler
Route(sid, method, path, body) ==
    LET mw == IF path \in GuestAllowedPaths THEN guestAllowedMiddleware(sid, method)
              ELSE authMiddleware(sid)
        h  == IF path = "/lists/create" THEN handleListCreate(method, mw.guest, body)
              ELSE IF path = "/lists/items/n" THEN handleListItems(method, mw.guest, body)
              ELSE IF path = "/lists/" THEN handleListsRoot(method)
              ELSE IF path = "/lists/n/append" THEN handleListsAppend(method, mw.guest, body)
              ELSE IF path = "/lists/n/delete" THEN handleListsDelete(method, mw.guest)
              ELSE IF path = "/lists/n/replace" THEN handleListsReplace(method, mw.guest, body)
              ELSE IF path = "/analytics" THEN handleAnalytics(method)
              ELSE IF path = "/logs" THEN handleLogs(method, mw.guest)
              ELSE handleReload(method, mw.guest)
    IN  IF mw.status # 0
        THEN [status |-> mw.status, call |-> "none", ran |-> FALSE, mac |-> "", guest |-> FALSE]
        ELSE [status |-> h.status, call |-> h.call, ran |-> TRUE, mac |-> mw.mac,
              guest |-> mw.guest]

\* the store, the associations, the ring and the log as a request finds them
Snapshot(c) ==
    [entered |-> TRUE, n |-> before[c].n + 1, files |-> files, lists |-> lists.val,
     compiled |-> compiled.val, assoc |-> userBlocklists, recent |-> recent,
     logFile |-> logFile,
     prev |-> [op |-> calls[c].op, pc |-> calls[c].pc, err |-> calls[c].err,
                      name |-> calls[c].name, items |-> calls[c].items,
                      added |-> calls[c].added]]

\* a request can be served: the connection's previous request was answered
CanServe(c) ==
    /\ http[c].stage \in {"none", "done"}
    /\ calls[c].pc \in {"idle", "done"}
    /\ before[c].n < MaxRequests

\* the request as the mux and the handler see it
Arrived(r, sid, method, path, body, stage, status) ==
    [stage |-> stage, sid |-> sid, method |-> method, path |-> path,
     name |-> IF r.ran THEN UserListName(r.mac) ELSE "", body |-> body, status |-> status,
     ran |-> r.ran, mac |-> r.mac, guest |-> r.guest, call |-> r.call]

\* a request that the middleware or the handler answers without a call of
\* the store that changes it: the rejections, and the reads GET /lists/,
\* GET /analytics (GetStats) and GET /logs (GetLogs)
ServeAnswer(c, sid, method, path, body) ==
    /\ CanServe(c)
    /\ LET r == Route(sid, method, path, body)
       IN  /\ r.call = "none"
           /\ http' = [http EXCEPT ![c] = Arrived(r, sid, method, path, body, "done", r.status)]
    /\ before' = [before EXCEPT ![c] = Snapshot(c)]
    /\ calls' = [calls EXCEPT ![c] = IdleCall]
    /\ UNCHANGED <<storeVars, dnsVars, sessions, now, recent, logFile, retired, telVars>>

\* a request whose handler calls a method of the BlocklistManager
ServeCall(c, sid, method, path, body) ==
    /\ CanServe(c)
    /\ LET r == Route(sid, method, path, body)
       IN  /\ r.call \notin {"none", "deletelogs", "delete"}
           /\ http' = [http EXCEPT ![c] = Arrived(r, sid, method, path, body, "handler", 0)]
    /\ before' = [before EXCEPT ![c] = Snapshot(c)]
    /\ calls' = [calls EXCEPT ![c] = IdleCall]
    /\ UNCHANGED <<storeVars, dnsVars, sessions, now, recent, logFile, retired, telVars>>

\* DELETE /logs, handleLogs lines 362-372 and DeleteLogs, blocklist.go lines
\* 375-392: os.Truncate fails (500, nothing cleared) or file and ring are emptied
ServeDeleteLogs(c, sid, method, path, body, truncateFails) ==
    /\ CanServe(c)
    /\ LET r == Route(sid, method, path, body)
       IN  /\ r.call = "deletelogs"
           /\ http' = [http EXCEPT ![c] =
                  Arrived(r, sid, method, path, body, "done",
                          IF truncateFails THEN 500 ELSE 200)]
    /\ logFile' = IF truncateFails THEN logFile ELSE <<>>
    /\ recent' = IF truncateFails THEN recent ELSE <<>>
    /\ before' = [before EXCEPT ![c] = Snapshot(c)]
    /\ calls' = [calls EXCEPT ![c] = IdleCall]
    /\ UNCHANGED <<storeVars, dnsVars, sessions, now, retired, telVars>>

\* DELETE /lists/n/delete, handleLists lines 295-307: os.Remove (500 when the
\* file is not there), RemoveUserBlocklist (its error is only logged), then
\* LoadAll
ServeDeleteList(c, sid, method, path, body, dbFails) ==
    /\ CanServe(c)
    /\ LET r    == Route(sid, method, path, body)
           name == UserListName(r.mac)
       IN  /\ r.call = "delete"
           /\ dbFails => name \in DOMAIN files
           /\ IF name \notin DOMAIN files
              THEN /\ http' = [http EXCEPT ![c] =
                          Arrived(r, sid, method, path, body, "done", 500)]
                   /\ calls' = [calls EXCEPT ![c] = IdleCall]
                   /\ UNCHANGED <<files, userBlocklists>>
              ELSE /\ http' = [http EXCEPT ![c] =
                          Arrived(r, sid, method, path, body, "handler", 0)]
                   /\ files' = MapDel(files, name)
                   /\ userBlocklists' =
                          IF dbFails \/ r.mac \notin DOMAIN userBlocklists THEN userBlocklists
                          ELSE [userBlocklists EXCEPT ![r.mac] = @ \ {name}]
                   /\ calls' = [calls EXCEPT ![c] =
                          [IdleCall EXCEPT !.op = "delete", !.pc = "la_readdir", !.name = name]]
    /\ before' = [before EXCEPT ![c] = Snapshot(c)]
    /\ UNCHANGED <<lists, compiled, mu, made, dir0, ipToMAC, AppConfig, handlers,
                   sessions, now, recent, logFile, retired, telVars>>

\* ReplaceListFromURL, blocklist.go lines 209-226: fetch the URL
ReplaceRead(c, name, url, fetch) ==
    /\ calls[c].pc = "idle"
    /\ LET newLines == SelectSeq(readLines[fetch.body], LAMBDA l : l # <<>>)
           base     == [IdleCall EXCEPT !.op = "replace", !.name = name, !.items = fetch.body]
       IN  calls' = [calls EXCEPT ![c] =
               IF name = "" \/ url = "" THEN [base EXCEPT !.pc = "done", !.err = "missing"]
               ELSE IF fetch.err THEN [base EXCEPT !.pc = "done", !.err = "fetch"]
               ELSE IF fetch.status < 200 \/ fetch.status >= 300
               THEN [base EXCEPT !.pc = "done", !.err = "status"]
               ELSE [base EXCEPT !.pc = "create", !.towrite = newLines]]
    /\ UNCHANGED <<storeVars, dnsVars, apiVars>>

\* the handler's call of the store has returned: the status it answers
\* (apihandlers.go lines 90-102, 138-147, 166-179, 245-251, 274-280, 307-309,
\* 331-337 and part_006 lines 385-389)
StatusOf(call, r) ==
    IF call \in {"create_items", "create_url", "append_items", "append_url", "replace", "reload"}
    THEN IF r.err # "" THEN 500 ELSE 200
    ELSE IF call = "listdomains"
    THEN IF r.err = "ErrNotExist" THEN 404 ELSE IF r.err # "" THEN 500 ELSE 200
    ELSE IF call = "remove"
    THEN IF r.err = "ErrNotExist" THEN 404
         ELSE IF r.err # "" THEN 500
         ELSE IF r.ret # "true" THEN 404 ELSE 200
    ELSE 200

\* the handler answers; /lists/create then has called AddUserBlocklist
\* (lines 97-99), whose error is only logged
Respond(c, dbFails) ==
    /\ http[c].stage = "handler"
    /\ calls[c].pc = "done"
    /\ LET status  == StatusOf(http[c].call, calls[c])
           created == http[c].call \in {"create_items", "create_url"} /\ status = 200
       IN  /\ dbFails => created
           /\ http' = [http EXCEPT ![c].stage = "done", ![c].status = status]
           /\ userBlocklists' =
                  IF created /\ ~dbFails
                  THEN [m \in DOMAIN userBlocklists \cup {http[c].mac} |->
                           IF m = http[c].mac
                           THEN (IF m \in DOMAIN userBlocklists THEN userBlocklists[m] ELSE {})
                                    \cup {http[c].name}
                           ELSE userBlocklists[m]]
                  ELSE userBlocklists
    /\ UNCHANGED <<storeVars, ipToMAC, AppConfig, handlers, calls, sessions, now, recent,
                   logFile, before, retired, telVars>>

(***************************************************************************)
(* SpecAPI: one client of the authenticated control API (its requests one  *)
(* after the other), logins, logouts, the clock and the telemetry of the   *)
(* DNS path.  The directory holds the list of device A.                    *)
(***************************************************************************)
ApiDirs == {[n \in {"L1"} |-> <<sx>>]}

ApiDomains == {sx, sy}

InitAPI ==
    /\ \E dir \in ApiDirs : StoreInit(dir)
    /\ ipToMAC = EmptyMap
    /\ userBlocklists = [m \in {"A"} |-> {"L1"}]
    /\ AppConfig = [BlockingMode |-> "null", BlockPageIP |-> <<>>]
    /\ CallsInit
    /\ HandlersInit
    /\ ApiInit

Called(what) == http[1].stage = "handler" /\ http[1].call \in what

NextAPI ==
    \/ \E sid \in SessionIds, l \in SessionLogins : createSession(sid, l.mac, l.guest)
    \/ \E sid \in SessionIds : InvalidateSession(sid)
    \/ cleanupSessions
    \/ Advance
    \/ queries < MaxLogged /\ RecordQueryWithClient(sx, "ip1", TRUE)
    \/ \E e \in appending, ok \in BOOLEAN : appendLog(e, ok)
    \/ \E sid \in SentIds, r \in Requests :
           ServeAnswer(1, sid, r.method, r.path, r.body)
    \/ \E sid \in SessionIds, r \in Requests :
           ServeCall(1, sid, r.method, r.path, r.body)
    \/ \E sid \in SessionIds, truncateFails \in BOOLEAN :
           ServeDeleteLogs(1, sid, "DELETE", "/logs", "", truncateFails)
    \/ \E sid \in SessionIds, dbFails \in BOOLEAN :
           ServeDeleteList(1, sid, "DELETE", "/lists/n/delete", "", dbFails)
    \/ \E items \in SeqItems :
           Called({"create_items", "append_items"})
               /\ AddItemsRead(1, http[1].name, items, http[1].call = "create_items")
    \/ \E fetch \in Fetches :
           Called({"create_url", "append_url"})
               /\ AddFileRead(1, http[1].name, fetch, http[1].call = "create_url")
    \/ \E domain \in ApiDomains :
           Called({"remove"}) /\ RemoveDomainLocked(1, http[1].name, domain)
    \/ \E fetch \in Fetches :
           Called({"replace"})
               /\ ReplaceRead(1, http[1].name, IF http[1].body = "url" THEN "u" ELSE "", fetch)
    \/ Called({"reload"}) /\ Reload(1)
    \/ Called({"listdomains"}) /\ ListDomainsRead(1, http[1].name)
    \/ ListDomainsFilter(1)
    \/ CreateFile(1)
    \/ CreateFails(1)
    \/ WriteLine(1)
    \/ WriteFails(1)
    \/ LoadAllReadDir(1)
    \/ LoadAllReadDirFails(1)
    \/ LoadAllOpen(1)
    \/ LoadAllSetLists(1)
    \/ LoadAllSetCompiled(1)
    \/ \E dbFails \in BOOLEAN : Respond(1, dbFails)

SpecAPI == InitAPI /\ [][NextAPI]_vars

(***************************************************************************)
(* What the claims about the control API speak of.                         *)
(***************************************************************************)
\* a request arrives in this step
Arrives(c) == http[c].stage \in {"none", "done"} /\ http'[c] # http[c]

\* sid names a session that is stored and not past its expiry
ValidSession(sid) == sid \in DOMAIN sessions /\ now <= sessions[sid].expires

\* the mutating operations of the control API
MutatingOps ==
    { <<"POST", "/lists/create">>, <<"POST", "/lists/n/append">>,
      <<"POST", "/lists/n/replace">>, <<"DELETE", "/lists/n/delete">>,
      <<"DELETE", "/lists/items/n">>, <<"DELETE", "/logs">>, <<"POST", "/reload">> }

\* list files, snapshot, user-list associations, ring and log stay as they are
NothingChanges == UNCHANGED <<files, lists, compiled, userBlocklists, recent, logFile>>

(***************************************************************************)
(* C18.  Guests are read-only: on the authenticated control API, every     *)
(* request with a valid guest session and a method other than GET that is  *)
(* one of the mutating operations (list create, append, replace, delete,   *)
(* item delete, log delete, reload) is answered 403 at once and changes no *)
(* list file, snapshot, user-list association, ring or log; so is any      *)
(* other request with a method other than GET, except that /reload answers *)
(* 405 to methods other than POST; every GET with a valid guest session    *)
(* passes the session check, the handler runs and the answer is never 401  *)
(* or 403.                                                                 *)
(***************************************************************************)
C18_GuestsReadOnly ==
    /\ [][\A c \in CallIds :
            (/\ Arrives(c)
             /\ ValidSession(http'[c].sid)
             /\ sessions[http'[c].sid].guest)
            => IF http'[c].method # "GET"
               THEN /\ http'[c].stage = "done"
                    /\ <<http'[c].method, http'[c].path>> \in MutatingOps
                           => http'[c].status = 403
                    /\ http'[c].status =
                           IF http'[c].path = "/reload" /\ http'[c].method # "POST"
                           THEN 405 ELSE 403
                    /\ calls'[c].pc = "idle"
                    /\ NothingChanges
               ELSE /\ http'[c].ran
                    /\ http'[c].guest
                    /\ http'[c].status \notin {401, 403}]_vars
    /\ [](\A c \in CallIds :
            (http[c].method = "GET" /\ http[c].ran) => http[c].status \notin {401, 403})

\* a guest asked to delete the logs: 403, and the ring still holds its entry
C18_Witness ==
    /\ http[1].stage = "done"
    /\ http[1].method = "DELETE" /\ http[1].path = "/logs"
    /\ http[1].sid \in DOMAIN sessions
    /\ sessions[http[1].sid].guest
    /\ http[1].status = 403
    /\ recent # <<>> /\ recent = before[1].recent
    /\ logFile # <<>>

(***************************************************************************)
(* C19.  Authentication failure: a control request to a session-protected  *)
(* endpoint (/lists/create, /lists/items/, /lists/, /analytics, /logs,     *)
(* /reload) that carries no X-Session-ID, an unknown id, an id removed by  *)
(* logout, or an id whose session has expired is answered 401, the wrapped *)
(* handler is not run, and no state changes.                               *)
(***************************************************************************)
C19_AuthenticationFailure ==
    [][\A c \in CallIds :
          (Arrives(c) /\ ~ValidSession(http'[c].sid))
          => /\ http'[c].stage = "done"
             /\ http'[c].status = 401
             /\ ~http'[c].ran
             /\ calls'[c].pc = "idle"
             /\ NothingChanges
             /\ UNCHANGED <<sessions, retired, ipToMAC, AppConfig, mu>>]_vars

\* a request with the id of a session that is stored but past its expiry
\* was answered 401
C19_Witness ==
    /\ http[1].stage = "done"
    /\ http[1].status = 401
    /\ http[1].sid \in DOMAIN sessions
    /\ now > sessions[http[1].sid].expires
    /\ http[1].path = "/reload" /\ http[1].method = "POST"
    /\ ~http[1].ran

(***************************************************************************)
(* C20.  NotFound on append to a missing list: an append, by URL or by     *)
(* items, with create_if_missing = false to a list whose file does not     *)
(* exist fails with a not-found error, creates no file and leaves the      *)
(* snapshot unchanged, and the control API answers the request with 404.   *)
(***************************************************************************)
C20_AppendToMissingList ==
    \A c \in CallIds :
        (/\ http[c].stage = "done"
         /\ http[c].call \in {"append_items", "append_url"}
         /\ http[c].name \notin DOMAIN before[c].files)
        => /\ calls[c].err = "ErrNotExist"
           /\ http[c].name \notin DOMAIN files
           /\ lists.val = before[c].lists
           /\ compiled.val = before[c].compiled
           /\ http[c].status = 404

(***************************************************************************)
(* C21.  Malformed input: every control request with undecodable JSON or a *)
(* missing required field (no name and no url/items on create, no url or   *)
(* items on append, no url on replace, no domain on item delete) is        *)
(* answered with status 400 and changes no list file, snapshot or          *)
(* association.  The requests meant are those that reach the decoding of   *)
(* the body: a valid session that is no guest's, the method of the         *)
(* operation.                                                              *)
(***************************************************************************)
C21_MalformedInput ==
    \A c \in CallIds :
        (/\ http[c].stage = "done"
         /\ http[c].ran /\ ~http[c].guest
         /\ \/ /\ http[c].method = "POST"
               /\ http[c].path \in {"/lists/create", "/lists/n/append"}
               /\ http[c].body \in {"bad", "domain"}
            \/ /\ http[c].method = "POST"
               /\ http[c].path = "/lists/n/replace"
               /\ http[c].body \in {"bad", "items", "domain"}
            \/ /\ http[c].method = "DELETE"
               /\ http[c].path = "/lists/items/n"
               /\ http[c].body \in {"bad", "items", "url"})
        => /\ http[c].status = 400
           /\ files = before[c].files
           /\ lists.val = before[c].lists
           /\ compiled.val = before[c].compiled
           /\ userBlocklists = before[c].assoc

(***************************************************************************)
(* The telemetry sink read: GetLogs and GetStats.                          *)
(***************************************************************************)
\* GetLogs, blocklist.go lines 395-404, of the ring it finds
GetLogs(ring, limit) ==
    LET lim == IF limit <= 0 \/ limit > Len(ring) THEN Len(ring) ELSE limit
    IN  SubSeq(ring, Len(ring) - lim + 1, Len(ring))

\* GetStats, lines 415-428: the two totals and copies of domainHits and
\* clientHits (allHits is not returned)
GetStats ==
    [Queries |-> queries, Blocked |-> blockedQueries, DomainHits |-> domainHits,
     ClientHits |-> clientHits]

\* a caller's GetLogs(limit)
CallGetLogs(limit) ==
    /\ returned' = [op |-> "GetLogs", limit |-> limit, out |-> GetLogs(recent, limit)]
    /\ UNCHANGED <<storeVars, dnsVars, calls, sessions, now, http, recent, logFile, before,
                   retired, statVars, appending, deleting,
                   lockVars>>

\* a caller's GetStats()
CallGetStats ==
    /\ returned' = [op |-> "GetStats", out |-> GetStats]
    /\ UNCHANGED <<storeVars, dnsVars, calls, sessions, now, http, recent, logFile, before,
                   retired, statVars, appending, deleting,
                   lockVars>>

(***************************************************************************)
(* SpecRing: record calls one after the other, enough of them to fill the  *)
(* ring and go beyond its capacity, and GetLogs calls between them.  The   *)
(* ring never reads an entry, so the entries recorded follow a fixed       *)
(* pattern of domains and verdicts; n tells them apart.  No appendLog      *)
(* goroutine is scheduled, so that appending holds every entry recorded.   *)
(***************************************************************************)
MaxRingRecords == 502

RingLimits == {-1, 0, 1, 2, recentCap - 1, recentCap, recentCap + 1}

RingDomain(n) == IF n % 2 = 0 THEN sx ELSE sy

NextRing ==
    \/ /\ queries < MaxRingRecords
       /\ RecordQueryWithClient(RingDomain(queries), "ip1", queries % 3 = 0)
    \/ \E limit \in RingLimits : CallGetLogs(limit)

SpecRing == InitAPI /\ [][NextRing]_vars

\* the entry the n-th record call made
Recorded(n) == CHOOSE e \in appending : e.n = n

(***************************************************************************)
(* C22.  Bounded recent-query ring: after any sequence of record calls the *)
(* ring holds at most recent_cap (500) entries, and they are exactly the   *)
(* most recently recorded entries in recording order (the oldest evicted   *)
(* first); GetLogs(limit) returns the last min(limit, size) entries of the *)
(* ring with the newest last, and all of them when limit <= 0.             *)
(***************************************************************************)
C22_BoundedRing ==
    /\ Len(recent) <= 500
    /\ Len(recent) = IF queries < 500 THEN queries ELSE 500
    /\ \A i \in 1..Len(recent) : recent[i] = Recorded(queries - Len(recent) + i)
    /\ returned.op = "GetLogs" =>
           LET size == Len(recent)
               k    == IF returned.limit <= 0 THEN size
                       ELSE IF returned.limit < size THEN returned.limit ELSE size
           IN  /\ Len(returned.out) = k
               /\ \A i \in 1..k : returned.out[i] = recent[size - k + i]

\* the ring is full, older entries have been evicted, and GetLogs has
\* returned a part of it
C22_Witness ==
    /\ queries > 500
    /\ Len(recent) = 500
    /\ recent[1].n = queries - 499
    /\ returned.op = "GetLogs"
    /\ returned.limit = 499
    /\ Len(returned.out) = 499


(***************************************************************************)
(* DeleteLogs, blocklist.go lines 375-392, in its two critical sections.   *)
(* b.logMu is held from the first to the return, so that no appendLog      *)
(* runs in between; the record calls, which take b.statsMu and b.recentMu, *)
(* do.  deleting.at remembers how many record calls had been made when     *)
(* DeleteLogs was called.                                                  *)
(***************************************************************************)
MaxDeletes == 1

\* lines 376-387: os.Truncate(b.logPath, 0); an error other than not-exist is
\* returned and nothing is cleared
DeleteLogsTruncate(fails) ==
    /\ deleting.pc \in {"idle", "returned"}
    /\ deleting.n < MaxDeletes
    /\ logFile' = IF fails THEN logFile ELSE <<>>
    /\ deleting' = [pc |-> IF fails THEN "returned" ELSE "truncated", n |-> deleting.n + 1,
                    at |-> queries, err |-> fails]
    /\ returned' = NoRes
    /\ UNCHANGED <<storeVars, dnsVars, calls, sessions, now, http, recent, before, retired,
                   statVars, appending,
                   lockVars>>

\* lines 388-391: b.recent = make(...) under b.recentMu, return nil
DeleteLogsClear ==
    /\ deleting.pc = "truncated"
    /\ recent' = <<>>
    /\ deleting' = [deleting EXCEPT !.pc = "returned"]
    /\ UNCHANGED <<storeVars, dnsVars, calls, sessions, now, http, logFile, before, retired,
                   statVars, appending, returned,
                   lockVars>>

(***************************************************************************)
(* SpecLog: the telemetry sink under its callers: the record calls of the  *)
(* DNS handlers, the appendLog goroutines they start, GetStats, GetLogs    *)
(* and DeleteLogs of the control plane, and a reload and an append of the  *)
(* list store going on meanwhile.                                          *)
(***************************************************************************)
MaxRecords == 2

LogClients == {"ip1", ""}

LogLimits == {0, 1}

NextLog ==
    \/ /\ queries < MaxRecords
       /\ \E domain \in ApiDomains, client \in LogClients, blocked \in BOOLEAN :
              RecordQueryWithClient(domain, client, blocked)
    \/ \E e \in appending, ok \in BOOLEAN : appendLog(e, ok)
    \/ \E limit \in LogLimits : CallGetLogs(limit)
    \/ CallGetStats
    \/ \E fails \in BOOLEAN : DeleteLogsTruncate(fails)
    \/ DeleteLogsClear
    \/ Reload(1)
    \/ \E items \in SeqItems : AddItemsRead(1, "L1", items, FALSE)
    \/ CreateFile(1)
    \/ WriteLine(1)
    \/ LoadAllReadDir(1)
    \/ LoadAllOpen(1)
    \/ LoadAllSetLists(1)
    \/ LoadAllSetCompiled(1)

SpecLog == InitAPI /\ [][NextLog]_vars

(***************************************************************************)
(* C23.  clear_log: after DeleteLogs returns, the ring is empty and the    *)
(* durable log contains no entry recorded before the DeleteLogs call,      *)
(* including the entries whose asynchronous log append had not yet run     *)
(* when DeleteLogs was called; the counters are left unchanged.            *)
(***************************************************************************)
C23_ClearLog ==
    /\ []((deleting.pc = "returned" /\ ~deleting.err)
            => /\ \A i \in 1..Len(logFile) : logFile[i].n > deleting.at
               /\ \A i \in 1..Len(recent) : recent[i].n > deleting.at)
    /\ [][deleting' # deleting
            => /\ UNCHANGED statVars
               /\ (deleting'.pc = "returned" /\ ~deleting'.err) => recent' = <<>>]_vars


\* every counter of the map m is kept and not lowered in m2
NotLowered(m, m2) == \A k \in DOMAIN m : k \in DOMAIN m2 /\ m2[k] >= m[k]

(***************************************************************************)
(* C24.  Monotonic counters: across any sequence and interleaving of       *)
(* record, GetStats, GetLogs, DeleteLogs, reload and list mutations,       *)
(* queries_total, blocked_total and every per-domain and per-client hit    *)
(* count never decrease; each record call raises queries_total by exactly  *)
(* 1 and blocked_total by exactly 1 if and only if blocked is true, and no *)
(* other step changes them.  (A record call is the step that starts an     *)
(* appendLog goroutine.)                                                   *)
(***************************************************************************)
C24_MonotonicCounters ==
    [][/\ queries' >= queries
       /\ blockedQueries' >= blockedQueries
       /\ NotLowered(domainHits, domainHits')
       /\ NotLowered(allHits, allHits')
       /\ NotLowered(clientHits, clientHits')
       /\ \A e \in appending' \ appending :
              /\ queries' = queries + 1
              /\ blockedQueries' = IF e.blocked THEN blockedQueries + 1 ELSE blockedQueries
       /\ appending' \subseteq appending => UNCHANGED statVars]_vars

\* two queries recorded, one of them blocked; DeleteLogs has returned, GetStats
\* has returned the counters and a call of the list store has completed
C24_Witness ==
    /\ queries = 2
    /\ blockedQueries = 1
    /\ Hits(domainHits, sx) = 1
    /\ Hits(allHits, sx) = 2
    /\ deleting.pc = "returned"
    /\ calls[1].pc = "done"
    /\ returned.op = "GetStats"
    /\ returned.out.Queries = 2


(***************************************************************************)
(* blocklist.go: ListDomains as a function of the snapshot it reads.       *)
(* Go's int is 64 bits wide; the model keeps its wrap-around with an int   *)
(* of IntBits bits, so that MaxInt stands for the largest limit a request  *)
(* can carry (strconv.Atoi accepts every value up to it).                  *)
(***************************************************************************)
IntBits == 8

MaxInt == 2 ^ (IntBits - 1) - 1

\* an int after an addition: two's complement wrap-around
WrapInt(n) == ((n + MaxInt + 1) % (2 ^ IntBits)) - (MaxInt + 1)

\* strings.Contains
Contains(s, sub) == \E i \in 0..(Len(s) - Len(sub)) : SubSeq(s, i + 1, i + Len(sub)) = sub

\* ListDomains, lines 431-459.  filtered[offset:end] with end < offset is a
\* run-time panic (slice bounds out of range): nothing is returned.
ListDomains(snapshot, listName, offset, limit, q) ==
    IF listName \notin DOMAIN snapshot
    THEN [total |-> 0, items |-> <<>>, err |-> "ErrNotExist"]
    ELSE LET lowerQ   == ToLower(TrimSpace(q))
             keep(d)  == lowerQ = <<>> \/ Contains(d, lowerQ)
             filtered == SelectSeq(snapshot[listName], keep)
             total    == Len(filtered)
             off      == IF offset < 0 THEN 0 ELSE offset
             lim      == IF limit <= 0 THEN 100 ELSE limit
             sum      == WrapInt(off + lim)
             end      == IF sum > total THEN total ELSE sum
         IN  IF off >= total
             THEN [total |-> total, items |-> <<>>, err |-> ""]
             ELSE IF end < off
                  THEN [total |-> 0, items |-> <<>>, err |-> "panic"]
                  ELSE [total |-> total, items |-> SubSeq(filtered, off + 1, end),
                        err |-> ""]

\* a caller's ListDomains(listName, offset, limit, q), the snapshot read
\* under the read lock
CallListDomains(listName, offset, limit, q) ==
    /\ mu = NoWriter
    /\ returned' = [op |-> "ListDomains", listName |-> listName, offset |-> offset,
                    limit |-> limit, q |-> q,
                    out |-> ListDomains(lists.val, listName, offset, limit, q)]
    /\ UNCHANGED <<storeVars, dnsVars, calls, sessions, now, http, recent, logFile, before,
                   retired, statVars, appending, deleting,
                   lockVars>>

(***************************************************************************)
(* SpecList: ListDomains called on the snapshots of small directories.     *)
(***************************************************************************)
sxy == <<"x", "y">>

\* the lines of L1.txt
ListFiles == {<<>>, <<sx>>, <<sx, sy>>, <<sy, sxy, sx>>, <<sxy, sy, sxy>>}

ListOffsets == {-1, 0, 1, 2, 3}

ListLimits == {-1, 0, 1, 2, 100, MaxInt}

\* the q of the request: empty, blank, a name, a name in capitals and blanks
ListQueries == {<<>>, <<" ">>, sx, <<" ", "X">>, sy, sxy, <<"y", "x">>}

InitList ==
    /\ \E lines \in ListFiles : StoreInit(MapPut(EmptyMap, "L1", lines))
    /\ ipToMAC = EmptyMap
    /\ userBlocklists = [m \in MACs |-> {}]
    /\ AppConfig = [BlockingMode |-> "null", BlockPageIP |-> <<>>]
    /\ CallsInit
    /\ HandlersInit
    /\ ApiInit

NextList ==
    \E listName \in ListNames, offset \in ListOffsets, limit \in ListLimits,
       q \in ListQueries :
        CallListDomains(listName, offset, limit, q)

SpecList == InitList /\ [][NextList]_vars

\* the rules of a sequence that contain needle, in their order
Matching[rules \in Seq(Str), needle \in Str] ==
    IF rules = <<>> THEN <<>>
    ELSE IF \E i \in 1..(Len(Head(rules)) - Len(needle) + 1) :
                SubSeq(Head(rules), i, i + Len(needle) - 1) = needle
         THEN <<Head(rules)>> \o Matching[Tail(rules), needle]
         ELSE Matching[Tail(rules), needle]

(***************************************************************************)
(* C25.  ListDomains(name, offset, limit, q) on an existing list returns   *)
(* total = the number of rules that contain the case-folded, trimmed q as  *)
(* a substring (all rules when q is empty) and page = the slice            *)
(* [offset, min(offset + limit, total)) of those rules in list order, a    *)
(* negative offset taken as 0, a limit <= 0 taken as 100, the page empty   *)
(* when offset >= total; on a list absent from the snapshot it returns     *)
(* not-found.                                                              *)
(***************************************************************************)
C25_ListDomains ==
    returned.op = "ListDomains" =>
        IF returned.listName \notin DOMAIN lists.val
        THEN returned.out.err = "ErrNotExist"
        ELSE LET those == Matching[lists.val[returned.listName],
                                   ToLower(TrimSpace(returned.q))]
                 total == Len(those)
                 off   == IF returned.offset < 0 THEN 0 ELSE returned.offset
                 lim   == IF returned.limit <= 0 THEN 100 ELSE returned.limit
                 end   == IF off + lim < total THEN off + lim ELSE total
             IN  /\ returned.out.err = ""
                 /\ returned.out.total = total
                 /\ returned.out.items =
                        IF off >= total THEN <<>> ELSE SubSeq(those, off + 1, end)


(***************************************************************************)
(* SpecUser: IsBlockedForUser over the snapshots that loading two list     *)
(* files gives, for a device with any set of enabled lists (L3 is enabled  *)
(* but has no file).  L1 holds one line drawn over UserAlphabet.           *)
(***************************************************************************)
UserAlphabet == {"a", ".", "*"}

UserDirs ==
    {MapPut(MapPut(EmptyMap, "L1", <<line>>), "L2", <<<<"b">>>>) :
        line \in StringsUpTo(UserAlphabet, MaxRuleLen)}

UserDomains == StringsUpTo({"a", "b", "."}, 2) \cup {<<"A">>, <<" ", "a">>, <<"a", ".", "a">>}

InitUser ==
    /\ \E dir \in UserDirs : StoreInit(dir)
    /\ ipToMAC = EmptyMap
    /\ \E enabled \in SUBSET (ListNames \cup {"L3"}) :
           userBlocklists = [m \in MACs |-> IF m = "A" THEN enabled ELSE {}]
    /\ AppConfig = [BlockingMode |-> "redirect", BlockPageIP |-> <<>>]
    /\ CallsInit
    /\ HandlersInit
    /\ ApiInit

\* a caller's IsBlockedForUser(domain, macAddress, am); GetUserBlocklists
\* answers with the device's lists or with an error
CallIsBlockedForUser(domain, macAddress, err) ==
    /\ mu = NoWriter
    /\ LET lookup == [err |-> err, lists |-> IF err THEN {} ELSE userBlocklists[macAddress]]
       IN  returned' = [op |-> "IsBlockedForUser", domain |-> domain, mac |-> macAddress,
                        lookup |-> lookup,
                        out |-> IsBlockedForUser(domain, macAddress, lookup, lists.val)]
    /\ UNCHANGED <<storeVars, dnsVars, calls, sessions, now, http, recent, logFile, before,
                   retired, statVars, appending, deleting,
                   lockVars>>

NextUser ==
    \E domain \in UserDomains, macAddress \in MACs, err \in BOOLEAN :
        CallIsBlockedForUser(domain, macAddress, err)

SpecUser == InitUser /\ [][NextUser]_vars

\* the rules of the enabled lists of the last call that the snapshot holds
EnabledRulesOf(r) ==
    UNION {Range(lists.val[n]) : n \in r.lookup.lists \cap DOMAIN lists.val}

(***************************************************************************)
(* C26.  Composite matcher equivalence.  As claimed: for every snapshot,   *)
(* domain and device, IsBlockedForUser(domain, device) equals the wildcard *)
(* match of the (lowercased, trimmed, trailing-dot-stripped) domain        *)
(* against the union of the rules of the device's enabled lists that exist *)
(* in the snapshot, each rule read as an anchored pattern whose '*'        *)
(* matches any run of characters; for a device that has every list enabled *)
(* it equals the global IsBlocked(domain).  The device's enabled lists are *)
(* those a successful lookup returns.                                      *)
(***************************************************************************)
C26_MatcherEquivalenceAsClaimed ==
    (returned.op = "IsBlockedForUser" /\ ~returned.lookup.err) =>
        LET d == NormDomain(TrimSpace(returned.domain))
        IN  /\ returned.out <=> \E r \in EnabledRulesOf(returned) : WildcardMatch(r, d)
            /\ DOMAIN lists.val \subseteq returned.lookup.lists
                   => (returned.out <=> IsBlockedIn(compiled.val, returned.domain))

\* C26 as amended: the same, each rule matched after one trailing '.' is
\* removed from it and provided it is then not empty
C26_MatcherEquivalence ==
    (returned.op = "IsBlockedForUser" /\ ~returned.lookup.err) =>
        LET d == NormDomain(TrimSpace(returned.domain))
        IN  /\ returned.out <=>
                   \E r \in EnabledRulesOf(returned) :
                       /\ TrimSuffix(r, <<".">>) # <<>>
                       /\ WildcardMatch(TrimSuffix(r, <<".">>), d)
            /\ DOMAIN lists.val \subseteq returned.lookup.lists
                   => (returned.out <=> IsBlockedIn(compiled.val, returned.domain))

\* a domain blocked for a device by a wildcard rule of one of its lists,
\* while another of its lists has no file and a list it has not enabled does
C26_Witness ==
    /\ returned.op = "IsBlockedForUser"
    /\ ~returned.lookup.err
    /\ returned.out
    /\ returned.lookup.lists = {"L1", "L3"}
    /\ \E r \in Range(lists.val["L1"]) : "*" \in Range(r)
    /\ ~IsBlockedIn(CompileAll([n \in {"L2"} |-> lists.val[n]]), returned.domain)


(***************************************************************************)
(* SpecBind: the control-plane client at BindIP opens sessions (the        *)
(* handlers of /auth/login, /auth/create and /auth/guest in                *)
(* StartAuthAPIServer end in createSession), and DNS queries arrive.       *)
(* SetIPMAC has no caller in the program, so no step of it is taken.       *)
(***************************************************************************)
BindIP == "ip1"

\* the messages: one question for a name on A's list, on B's list, on no list
BindMessages ==
    {<<[name |-> n, qtype |-> "A"]>> : n \in {<<"x", ".">>, <<"y", ".">>, <<"z", ".">>}}

NextBind ==
    \/ \E sid \in SessionIds, l \in SessionLogins : createSession(sid, l.mac, l.guest)
    \/ \E sid \in SessionIds : InvalidateSession(sid)
    \/ \E h \in HandlerIds, ip \in IPs, qs \in BindMessages :
           handlers[h].pc = "idle" /\ Receive(h, ip, qs)
    \/ \E h \in HandlerIds, dbFails \in BOOLEAN : Identify(h, dbFails)
    \/ \E h \in HandlerIds : Match(h)
    \/ \E h \in HandlerIds, outcome \in UpstreamOutcomes : Forward(h, outcome)
    \/ \E h \in HandlerIds : Record(h)
    \/ \E h \in HandlerIds : Write(h)

SpecBind == InitDNS /\ [][NextBind]_vars

(***************************************************************************)
(* C27.  Client binding populated by the control plane: after device A     *)
(* successfully logs in, creates an account or opens a session on the      *)
(* control plane from client IP X, the binding cache maps X to A           *)
(* (GetMAC(X) = A, the most recent SetIPMAC for X wins), so that           *)
(* subsequent DNS queries from X are evaluated with A's enabled lists      *)
(* only: the handler identifies the device of a query by GetMAC of its     *)
(* client IP.  Here X is BindIP, and the session opened last is the one    *)
(* am.sessions holds.                                                      *)
(***************************************************************************)
C27_ClientBinding ==
    \A sid \in DOMAIN sessions : GetMAC(BindIP) = sessions[sid].mac


(***************************************************************************)
(* The path of a list file: filepath.Join(b.dir, listName + ".txt") on a   *)
(* system whose separator is '/'.  A cleaned path is the sequence of its   *)
(* components; b.dir is the one component "d".                             *)
(***************************************************************************)
\* filepath.Clean of a relative path, on its components: "." is dropped and
\* ".." removes the component before it, or stays when there is none
CleanPath[comps \in Seq(Str), out \in Seq(Str)] ==
    IF comps = <<>> THEN out
    ELSE LET c == Head(comps)
         IN  IF c = <<".">> THEN CleanPath[Tail(comps), out]
             ELSE IF c = <<".", ".">> /\ out # <<>> /\ out[Len(out)] # <<".", ".">>
                  THEN CleanPath[Tail(comps), SubSeq(out, 1, Len(out) - 1)]
                  ELSE CleanPath[Tail(comps), Append(out, c)]

blocklistDir == <<"d">>

\* filepath.Join(b.dir, elem) (path.Join in handleLists)
JoinDir(elem) == CleanPath[<<blocklistDir>> \o FieldsFunc[elem, {"/"}], <<>>]

\* blocklist.go lines 160, 225, 254, 487; apihandlers.go line 295
ListPath(listName) == JoinDir(listName \o <<".", "t", "x", "t">>)

\* fmt.Sprintf("%s_%s", userMAC, name), apihandlers.go lines 81, 118, 224
userListName(userMAC, name) == userMAC \o <<"_">> \o name

\* POST /lists/create with the name and items in the body, handleListCreate
\* lines 74-89 and AddItemsToList lines 251-283: the file the store creates
\* or overwrites
CreateList(userMAC, name) ==
    IF name = <<>> THEN [status |-> 400, touched |-> {}]
    ELSE [status |-> 200, touched |-> {ListPath(userListName(userMAC, name))}]

\* the name handleLists cuts from the path after "/lists/", lines 222-223:
\* strings.SplitN(p, "/", 2)[0]
NameOfPath(p) ==
    IF \E i \in 1..Len(p) : p[i] = "/"
    THEN SubSeq(p, 1, (CHOOSE i \in 1..Len(p) : p[i] = "/" /\ \A j \in 1..(i - 1) : p[j] # "/") - 1)
    ELSE p

\* /lists/<name>/append, /replace and /delete, handleLists lines 222-340:
\* the file appended to, overwritten or removed, when it exists
ListOperation(userMAC, p, exists) ==
    IF exists THEN [status |-> 200, touched |-> {ListPath(userListName(userMAC, NameOfPath(p)))}]
    ELSE [status |-> 500, touched |-> {}]

\* DELETE /lists/items/<listName>, handleListItems lines 108-118 and
\* RemoveDomain lines 466-488: the file of a list of the snapshot is rewritten
RemoveItem(userMAC, listName, loaded) ==
    IF listName = <<>> THEN [status |-> 400, touched |-> {}]
    ELSE IF userListName(userMAC, listName) \notin loaded
         THEN [status |-> 404, touched |-> {}]
         ELSE [status |-> 200, touched |-> {ListPath(userListName(userMAC, listName))}]

\* a request on a list with the name it supplies
CallListOp(op, userMAC, name, out) ==
    /\ returned' = [op |-> op, mac |-> userMAC, name |-> name, out |-> out]
    /\ UNCHANGED <<storeVars, dnsVars, calls, sessions, now, http, recent, logFile, before,
                   retired, statVars, appending, deleting,
                   lockVars>>

(***************************************************************************)
(* SpecPath: the list operations of the control API with the names a       *)
(* request can supply.  The snapshot holds the list A_a of device A.       *)
(***************************************************************************)
MaxNameTokens == 5

\* the pieces names are made of
NameTokens == {<<"a">>, <<".", ".">>, <<"/">>}

\* the names of a request body, or of the rest of a path
BodyNames ==
    {Flatten[ts] : ts \in StringsUpTo(NameTokens, MaxNameTokens)}
    \cup {<<".">>, <<"a", ".">>, <<"\\">>, <<"a", "\\", ".", ".", "\\", "a">>}

\* the first segment of a path that http.ServeMux has cleaned: not empty, no
\* '/', and neither "." nor ".."
SegmentNames ==
    {n \in StringsUpTo({"a", ".", "\\"}, 3) : n \notin {<<>>, <<".">>, <<".", ".">>}}

LoadedLists == {<<"A", "_", "a">>}

NextPath ==
    \/ \E name \in BodyNames : CallListOp("create", <<"A">>, name, CreateList(<<"A">>, name))
    \/ \E name \in SegmentNames, op \in {"append", "replace", "delete"} :
           CallListOp(op, <<"A">>, name,
                      ListOperation(<<"A">>, name \o <<"/">> \o <<"x">>,
                                    userListName(<<"A">>, name) \in LoadedLists))
    \/ \E name \in BodyNames :
           CallListOp("removeitem", <<"A">>, name, RemoveItem(<<"A">>, name, LoadedLists))

InitPath ==
    /\ StoreInit(MapPut(EmptyMap, "L1", <<sx>>))
    /\ ipToMAC = EmptyMap
    /\ userBlocklists = [m \in MACs |-> {}]
    /\ AppConfig = [BlockingMode |-> "null", BlockPageIP |-> <<>>]
    /\ CallsInit
    /\ HandlersInit
    /\ ApiInit

SpecPath == InitPath /\ [][NextPath]_vars

\* the cleaned path p is that of a file inside the blocklist directory
InsideDir(p) == Len(p) >= 2 /\ p[1] = blocklistDir /\ \A i \in 2..Len(p) : p[i] # <<".", ".">>

(***************************************************************************)
(* C28.  Path containment: no list operation reachable through the control *)
(* API (create, append, replace, delete, item get/delete) creates,         *)
(* overwrites or removes a file outside the blocklist directory; a list    *)
(* name containing '..', '/' or '\' is rejected before any file operation. *)
(***************************************************************************)
C28_PathContainment ==
    returned.op \in {"create", "append", "replace", "delete", "removeitem"} =>
        /\ \A p \in returned.out.touched : InsideDir(p)
        /\ (\/ Contains(returned.name, <<".", ".">>)
            \/ Contains(returned.name, <<"/">>)
            \/ Contains(returned.name, <<"\\">>))
           => returned.out.touched = {}


\* ---------------------------------------------------------------------
\* Session lifetime
\* ---------------------------------------------------------------------

\* the ids generateSessionID draws while sessions come and go
LifetimeIds == {"s1", "s2"}

\* POST /auth/verify (part_006 lines 199-225): the answer of GetSession for
\* the id the request names, at the time the request is served
CallGetSession(sid) ==
    /\ returned' = [op |-> "verify", sid |-> sid, out |-> GetSession(sid), at |-> now]
    /\ UNCHANGED <<storeVars, dnsVars, calls, sessions, now, http, recent, logFile,
                   before, retired, statVars, appending, deleting,
                   lockVars>>

NextSession ==
    \/ \E sid \in LifetimeIds, l \in SessionLogins : createSession(sid, l.mac, l.guest)
    \/ \E sid \in LifetimeIds : InvalidateSession(sid)
    \/ cleanupSessions
    \/ Advance
    \/ \E sid \in LifetimeIds \cup {"s0"} : CallGetSession(sid)

\* the ticker of cleanupSessions fires every hour for as long as the
\* process runs
SpecSession == InitAPI /\ [][NextSession]_vars /\ WF_vars(cleanupSessions)

\* sid is stored and its ExpiresAt has passed
Expired(sid) == sid \in DOMAIN sessions /\ now > sessions[sid].expires

\* C29: GetSession accepts an id only while a session is stored under it,
\* from the createSession that stored it until 24 hours (SessionTTL) later:
\* never after its expiry has passed, swept or not, and never after
\* InvalidateSession has run for it; a stored session is never altered, the
\* sweep removes expired sessions only, and every expired session is
\* eventually removed.
C29_SessionLifetime ==
    /\ [](\A sid \in LifetimeIds \cup {"s0"} :
            ~GetSession(sid).err =>
                /\ sid \in DOMAIN sessions
                /\ sid \notin retired
                /\ now <= sessions[sid].expires)
    /\ [][/\ now' >= now
          /\ retired \subseteq retired'
          /\ \A sid \in DOMAIN sessions' \ DOMAIN sessions :
                sessions'[sid].expires = now + SessionTTL
          /\ \A sid \in DOMAIN sessions \cap DOMAIN sessions' :
                sessions'[sid] = sessions[sid]
          /\ \A sid \in DOMAIN sessions \ DOMAIN sessions' : sid \in retired'
          /\ cleanupSessions =>
                /\ \A sid \in DOMAIN sessions \ DOMAIN sessions' : Expired(sid)
                /\ \A sid \in DOMAIN sessions' : ~Expired(sid)
          /\ (returned' # returned /\ returned'.op = "verify" /\ ~returned'.out.err) =>
                /\ returned'.sid \in DOMAIN sessions
                /\ returned'.sid \notin retired
                /\ now <= sessions[returned'.sid].expires]_vars
    /\ \A sid \in LifetimeIds : Expired(sid) ~> sid \notin DOMAIN sessions

\* a session past its expiry is still stored, and /auth/verify has just
\* refused it
C29_Witness ==
    /\ returned.op = "verify"
    /\ returned.out.err
    /\ returned.at = now
    /\ returned.sid \in DOMAIN sessions
    /\ Expired(returned.sid)


\* ---------------------------------------------------------------------
\* Per-user lists
\* ---------------------------------------------------------------------

\* GET /lists/items/<listName>, handleListItems lines 108-137 and ListDomains
\* lines 431-437: the list of the snapshot whose rules are served
ReadItems(userMAC, listName, loaded) ==
    IF listName = <<>> THEN [status |-> 400, touched |-> {}, served |-> {}]
    ELSE IF userListName(userMAC, listName) \notin loaded
         THEN [status |-> 404, touched |-> {}, served |-> {}]
         ELSE [status |-> 200, touched |-> {}, served |-> {userListName(userMAC, listName)}]

\* GET /lists/, handleLists lines 194-219: the lists associated with the
\* device that the snapshot holds
ListLists(associated, loaded) ==
    [status |-> 200, touched |-> {}, served |-> associated \cap loaded]

\* the list a of device A and the list a of device B
ListOfA == <<"A", "_", "a">>
ListOfB == <<"B", "_", "a">>
BothLoaded == {ListOfA, ListOfB}

\* the names device B supplies in a body or after /lists/items/
IsolationNames ==
    {Flatten[ts] : ts \in StringsUpTo(NameTokens \cup {ListOfA}, MaxNameTokens - 1)}

\* the first path segments device B supplies
IsolationSegments == SegmentNames \cup {ListOfA}

NextIsolate ==
    \/ \E name \in IsolationNames : CallListOp("create", <<"B">>, name, CreateList(<<"B">>, name))
    \/ \E name \in IsolationSegments, op \in {"append", "replace", "delete"} :
           CallListOp(op, <<"B">>, name,
                      ListOperation(<<"B">>, name \o <<"/">> \o <<"x">>,
                                    userListName(<<"B">>, name) \in BothLoaded))
    \/ \E name \in IsolationNames :
           CallListOp("removeitem", <<"B">>, name, RemoveItem(<<"B">>, name, BothLoaded))
    \/ \E name \in IsolationNames :
           CallListOp("read", <<"B">>, name, ReadItems(<<"B">>, name, BothLoaded))
    \/ CallListOp("list", <<"B">>, <<>>, ListLists({ListOfB}, BothLoaded))

SpecIsolate == InitPath /\ [][NextIsolate]_vars

\* C30: whatever list name a request of device B supplies, it neither
\* returns the rules of the list device A created nor creates, overwrites or
\* removes the file of that list.
C30_ListIsolation ==
    returned.op \in {"create", "append", "replace", "delete", "removeitem", "read", "list"} =>
        /\ ListPath(ListOfA) \notin returned.out.touched
        /\ returned.op \in {"read", "list"} => ListOfA \notin returned.out.served

(***************************************************************************)
(* SpecReplace: one caller calls ReplaceListFromURL, the appends and       *)
(* LoadAll one after the other; the fetched body may repeat a rule or hold *)
(* a rule with two trailing dots; os.Create, WriteString and os.ReadDir    *)
(* may fail.                                                               *)
(***************************************************************************)
\* the bodies the URL may serve, as lines
ReplaceBodies == {<<sy>>, <<sy, sy>>, <<sxdd>>, <<sx, sy>>}

\* what client.Get(url) may give ReplaceListFromURL
ReplaceFetches ==
    {[err |-> FALSE, status |-> 200, body |-> b] : b \in ReplaceBodies}
    \cup {[err |-> TRUE, status |-> 0, body |-> <<>>]}

NextReplace ==
    \/ Enter(1)
    \/ \E name \in ListNames, fetch \in ReplaceFetches :
           before[1].entered /\ ReplaceRead(1, name, "u", fetch)
    \/ \E name \in ListNames, items \in SeqItems :
           before[1].entered /\ AddItemsRead(1, name, items, TRUE)
    \/ \E name \in ListNames, fetch \in ReplaceFetches :
           before[1].entered /\ AddFileRead(1, name, fetch, TRUE)
    \/ before[1].entered /\ Reload(1)
    \/ CreateFile(1)
    \/ CreateFails(1)
    \/ WriteLine(1)
    \/ WriteFails(1)
    \/ LoadAllReadDir(1)
    \/ LoadAllReadDirFails(1)
    \/ LoadAllOpen(1)
    \/ LoadAllSetLists(1)
    \/ LoadAllSetCompiled(1)

SpecReplace == InitSeq /\ [][NextReplace]_vars

\* call record r is a ReplaceListFromURL that has returned nil
Replaced(r) == r.op = "replace" /\ Returned(r) /\ r.err = ""

\* the count ReplaceListFromURL returns: written++ after every line written
\* (line 234), which is the offset the next line would go to
written(r) == r.woff

(***************************************************************************)
(* C31.  replace_from_url: after ReplaceListFromURL(name, url) succeeds    *)
(* the rules of the list, in its file and in the snapshot, are exactly the *)
(* rules parsed from the fetched body, whatever the list held before, and  *)
(* the returned count is the number of rules the list then holds.          *)
(***************************************************************************)
C31_ReplaceFromURL ==
    Replaced(calls[1]) =>
        LET name   == calls[1].name
            parsed == Range(readLines[calls[1].items])
        IN  /\ name \in DOMAIN files
            /\ Range(files[name]) = parsed
            /\ name \in DOMAIN lists.val
            /\ Range(lists.val[name]) = parsed
            /\ written(calls[1]) = Len(lists.val[name])

(***************************************************************************)
(* SpecTx: the DNS handler with messages that carry a transaction id.      *)
(***************************************************************************)
\* the transaction ids of the messages
TxIds == {1, 2}

NextTx ==
    \/ \E l \in Logins : SetIPMAC(l[1], l[2])
    \/ \E h \in HandlerIds, ip \in IPs, id \in TxIds, qs \in Messages :
           handlers[h].pc = "idle" /\ ReceiveMsg(h, ip, [Id |-> id, Question |-> qs])
    \/ \E h \in HandlerIds, dbFails \in BOOLEAN : Identify(h, dbFails)
    \/ \E h \in HandlerIds : Match(h)
    \/ \E h \in HandlerIds, outcome \in UpstreamOutcomes : Forward(h, outcome)
    \/ \E h \in HandlerIds : Record(h)
    \/ \E h \in HandlerIds : Write(h)

SpecTx == InitDNS /\ [][NextTx]_vars

(***************************************************************************)
(* C32.  Transaction identity: every reply sent, on the block path and on  *)
(* the forward path, carries the transaction id and the question section   *)
(* of the query unchanged and is marked as a response (QR = 1), whatever   *)
(* the upstream answered.                                                  *)
(***************************************************************************)
C32_TransactionIdentity ==
    \A h \in HandlerIds :
        handlers[h].written =>
            /\ handlers[h].reply.Id = handlers[h].id
            /\ handlers[h].reply.Question = handlers[h].questions
            /\ handlers[h].reply.Response

(***************************************************************************)
(* C33.  Duplicate collapse: in every published snapshot each list holds   *)
(* each rule at most once, so the count GET /lists/ reports for a list and *)
(* the total of ListDomains are the number of distinct rules, also after a *)
(* ReplaceListFromURL whose body repeats a domain.                         *)
(***************************************************************************)
C33_DuplicateCollapse ==
    \A n \in DOMAIN lists.val :
        /\ Len(lists.val[n]) = Cardinality(Range(lists.val[n]))
        /\ ListDomains(lists.val, n, 0, 100, <<>>).total = Cardinality(Range(lists.val[n]))

(***************************************************************************)
(* SpecParse: readLines over the lines a list file may hold.               *)
(***************************************************************************)
MaxLineTokens == 4

\* the pieces lines are made of
LineTokens ==
    {<<"x">>, <<"X">>, <<".">>, <<"#">>, <<" ">>, <<"f", "f">>,
     <<"1", ".", "2", ".", "3", ".", "4">>,
     <<"l", "o", "c", "a", "l", "h", "o", "s", "t">>}

\* the texts parsed: one line, or two
ParseTexts ==
    {<<Flatten[ts]>> : ts \in StringsUpTo(LineTokens, MaxLineTokens)}
    \cup {<<sx, <<"x", ".", ".", " ", "y">>>>, <<<<"#", "x">>, sy>>}

\* patterns, _ := readLines(f), LoadAll line 97: the rules a file gives
CallReadLines(text) ==
    /\ returned' = [op |-> "readLines", text |-> text, out |-> readLines[text]]
    /\ UNCHANGED <<storeVars, dnsVars, calls, sessions, now, http, recent, logFile,
                   before, retired, statVars, appending, deleting,
                   lockVars>>

\* one file is parsed
NextParse == returned.op = "none" /\ \E text \in ParseTexts : CallReadLines(text)

SpecParse == InitPath /\ [][NextParse]_vars

\* the tokens of a text: the fields of each line up to its first '#'
SourceTokens(text) ==
    Concat[[i \in 1..Len(text) |->
        LET idx == IndexOf(text[i], "#")
        IN  Fields(IF idx > 0 THEN SubSeq(text[i], 1, idx - 1) ELSE text[i])]]

UpperChars == {"A", "X", "F"}

\* a reserved local host name: the five names, and the ip6- and ff labels
ReservedLocal(r) ==
    \/ r \in LocalNames
    \/ HasPrefix(r, <<"i", "p", "6", "-">>)
    \/ HasPrefix(r, <<"f", "f">>)

\* r is non-empty, lower case, free of white space, no comment, no IP
\* literal and no reserved local name
ValidRule(r) ==
    /\ r # <<>>
    /\ \A j \in 1..Len(r) : r[j] \notin UpperChars /\ ~IsSpace(r[j]) /\ r[j] # "#"
    /\ ~isIPString(r)
    /\ ~ReservedLocal(r)

\* token t lowercased, with one trailing dot removed
OnceNormalized(t) == ToLower(TrimSuffix(t, <<".">>))

\* the claim as stated: every parsed rule is valid and has no trailing dot,
\* and every token that is a valid rule once normalized is kept
C34_RuleValidityAsClaimed ==
    returned.op = "readLines" =>
        /\ \A r \in Range(returned.out) : ValidRule(r) /\ r[Len(r)] # "."
        /\ \A t \in Range(SourceTokens(returned.text)) :
               ValidRule(OnceNormalized(t)) => OnceNormalized(t) \in Range(returned.out)

(***************************************************************************)
(* C34.  Rule validity: every rule parsed from a file is a source token    *)
(* lowercased with one trailing dot removed; it is non-empty, free of      *)
(* white space, not a comment, not an IP literal and not a reserved local  *)
(* host name; and no source token that is such a rule once normalized is   *)
(* dropped.                                                                *)
(***************************************************************************)
C34_RuleValidity ==
    returned.op = "readLines" =>
        /\ \A r \in Range(returned.out) :
               /\ ValidRule(r)
               /\ \E t \in Range(SourceTokens(returned.text)) : r = OnceNormalized(t)
        /\ \A t \in Range(SourceTokens(returned.text)) :
               ValidRule(OnceNormalized(t)) => OnceNormalized(t) \in Range(returned.out)

\* a line with a valid rule that ends in a dot, next to a token that was
\* dropped
C34_Witness ==
    /\ returned.op = "readLines"
    /\ \E r \in Range(returned.out) : r[Len(r)] = "."
    /\ Len(SourceTokens(returned.text)) > Len(returned.out)

\* call record r is an append that has returned nil
Appended(r) == r.op \in {"additems", "addfile"} /\ Returned(r) /\ r.err = ""

\* the number of rules list n holds in the list map ls
CountIn(ls, n) == IF n \in DOMAIN ls THEN Len(ls[n]) ELSE 0

(***************************************************************************)
(* C35.  Append count agrees with effect: the count a successful append    *)
(* (AddItemsToList or AddFileToList) returns is the number of rules by     *)
(* which the in-memory list grew from the snapshot before the call to the  *)
(* snapshot after it; and the same append made a second time returns 0 and *)
(* leaves the list unchanged.                                              *)
(***************************************************************************)
C35_AppendCount ==
    Appended(calls[1]) =>
        LET name == calls[1].name
        IN  /\ calls[1].added = CountIn(lists.val, name) - CountIn(before[1].lists, name)
            /\ ( /\ Appended(before[1].prev)
                 /\ before[1].prev.op = calls[1].op
                 /\ before[1].prev.name = name
                 /\ before[1].prev.items = calls[1].items )
               => /\ calls[1].added = 0
                  /\ CountIn(lists.val, name) = CountIn(before[1].lists, name)
                  /\ name \in DOMAIN before[1].lists => lists.val[name] = before[1].lists[name]

\* the records the handler appended on the block path are the last nsynth
\* records of the reply
SynthTail(h) ==
    SubSeq(handlers[h].answer, Len(handlers[h].answer) - handlers[h].nsynth + 1,
           Len(handlers[h].answer))

\* the exchanges made for question i of the message of handler h
ExchangesFor(h, i) == {k \in 1..Len(handlers[h].forwarded) : handlers[h].forwarded[k].qi = i}

(***************************************************************************)
(* C36.  Blocked questions are never forwarded and telemetry agrees with   *)
(* the reply: for every question handled an upstream exchange is made iff  *)
(* the blocking decision was false (one exchange then, none otherwise),    *)
(* and its telemetry entry has blocked = true iff the reply to it was      *)
(* built on the block path: the handler appended the synthesized records   *)
(* of the blocking mode and replied.                                       *)
(***************************************************************************)
C36_ForwardAndTelemetry ==
    \A h \in HandlerIds :
        /\ \A i \in 1..Len(handlers[h].questions) : Cardinality(ExchangesFor(h, i)) <= 1
        /\ \A i \in 1..Len(handlers[h].questions) :
               (ExchangesFor(h, i) # {} /\ (i < handlers[h].qi \/ handlers[h].pc \in {"write", "done"}))
                   => i <= Len(handlers[h].recorded)
        /\ \A i \in 1..Len(handlers[h].recorded) :
               /\ handlers[h].recorded[i].name = MatchName(h, i)
               /\ ~handlers[h].recorded[i].blocked <=> ExchangesFor(h, i) # {}
               /\ handlers[h].recorded[i].blocked =>
                      /\ i = handlers[h].qi
                      /\ handlers[h].blocked
                      /\ handlers[h].pc \in {"write", "done"}
                      /\ handlers[h].nsynth = Len(BlockAnswer(handlers[h].questions[i]))
                      /\ SynthTail(h) = BlockAnswer(handlers[h].questions[i])
        /\ handlers[h].pc = "record" =>
               (handlers[h].blocked <=> ExchangesFor(h, handlers[h].qi) = {})

\* two questions: the first was allowed, exchanged with the upstream and
\* recorded as allowed, the second was blocked and recorded as blocked, and
\* the reply was written
C36_Witness ==
    \E h \in HandlerIds :
        /\ handlers[h].pc = "done"
        /\ handlers[h].written
        /\ Len(handlers[h].recorded) = 2
        /\ ~handlers[h].recorded[1].blocked
        /\ handlers[h].recorded[2].blocked
        /\ ExchangesFor(h, 1) # {}
        /\ ExchangesFor(h, 2) = {}

\* the sum of the counts of a hit map
SumHits(m) ==
    LET sum[S \in SUBSET DOMAIN m] ==
            IF S = {} THEN 0
            ELSE LET k == CHOOSE x \in S : TRUE IN m[k] + sum[S \ {k}]
    IN  sum[DOMAIN m]

\* what GetStats returned, or would return now, is consistent
ConsistentStats(s) ==
    /\ s.Blocked <= s.Queries
    /\ SumHits(s.DomainHits) = s.Blocked
    /\ SumHits(s.ClientHits) <= s.Queries

\* a record call adds one to the per-client hits iff its client is not
\* empty, and nothing else changes them
ClientHitsStep ==
    IF queries' # queries
    THEN LET e == CHOOSE x \in appending' : x.n = queries'
         IN  SumHits(clientHits') = SumHits(clientHits) + (IF e.client # "" THEN 1 ELSE 0)
    ELSE clientHits' = clientHits

(***************************************************************************)
(* C37.  Counter consistency: in every state GetStats observes, the        *)
(* blocked total is at most the query total, the per-blocked-domain hits   *)
(* sum to the blocked total, the per-domain hits of all queries sum to the *)
(* query total, and the per-client hits sum to the number of records made  *)
(* with a non-empty client.                                                *)
(***************************************************************************)
C37_CounterConsistency ==
    /\ [](/\ ConsistentStats(GetStats)
          /\ SumHits(allHits) = queries
          /\ returned.op = "GetStats" => ConsistentStats(returned.out))
    /\ [][ClientHitsStep]_vars

\* GetStats has returned totals of two queries, one of them blocked, one of
\* them without a client
C37_Witness ==
    /\ returned.op = "GetStats"
    /\ returned.out.Queries = 2
    /\ returned.out.Blocked = 1
    /\ SumHits(returned.out.ClientHits) = 1


(***************************************************************************)
(* The four mutexes of the BlocklistManager, step by step.  b.mu is the    *)
(* variable mu of the list store.  b.statsMu, b.recentMu and b.logMu are   *)
(* taken and released here in steps of their own, so that a goroutine that *)
(* waits for one of them while it holds another is a state of the model.   *)
(***************************************************************************)
\* most DNS queries served in the lock specification
MaxLockQueries == 1

LockDomains == {sx}

LockClients == {"ip1"}

\* the DNS handler of part_000 up to its record call: the verdict of
\* IsBlockedForUser, read under b.mu.RLock (userfilter.go lines 52-53), for a
\* query of device A
Query(domain, client) ==
    /\ recording.pc = "idle"
    /\ recording.n < MaxLockQueries
    /\ mu = NoWriter
    /\ recording' = [pc |-> "stats_lock", n |-> recording.n + 1, domain |-> domain,
                     client |-> client,
                     blocked |-> IsBlockedForUser(domain, "A", GetUserBlocklists("A", FALSE),
                                                  lists.val)]
    /\ UNCHANGED <<storeVars, dnsVars, calls, sessions, now, http, recent, logFile, before,
                   retired, statVars, appending, deleting, returned, statsMu, recentMu, logMu>>

\* a DeleteLogs that returns with b.logMu still held
DeleteLogsKeepsLogMu(fails) ==
    \/ /\ deleting.pc \in {"idle", "returned"}
       /\ deleting.n < MaxDeletes
       /\ deleting' = [pc |-> "log_lock", n |-> deleting.n + 1, at |-> queries, err |-> FALSE]
       /\ UNCHANGED <<recent, logFile, recentMu, logMu>>
    \/ /\ deleting.pc = "log_lock"
       /\ logMu = NoHolder
       /\ logMu' = [by |-> "DeleteLogs"]
       /\ deleting' = [deleting EXCEPT !.pc = "truncate"]
       /\ UNCHANGED <<recent, logFile, recentMu>>
    \/ /\ deleting.pc = "truncate"
       /\ logFile' = IF fails THEN logFile ELSE <<>>
       /\ logMu' = IF fails THEN NoHolder ELSE logMu
       /\ deleting' = [deleting EXCEPT !.pc = IF fails THEN "returned" ELSE "recent_lock",
                                       !.err = fails]
       /\ UNCHANGED <<recent, recentMu>>
    \/ /\ deleting.pc = "recent_lock"
       /\ recentMu = NoHolder
       /\ recentMu' = [by |-> "DeleteLogs"]
       /\ deleting' = [deleting EXCEPT !.pc = "clear"]
       /\ UNCHANGED <<recent, logFile, logMu>>
    \/ /\ deleting.pc = "clear"
       /\ recent' = <<>>
       /\ recentMu' = NoHolder
       /\ deleting' = [deleting EXCEPT !.pc = "returned"]
       /\ UNCHANGED <<logFile, logMu>>

\* RecordQueryWithClient, lines 325-348, statement by statement: b.statsMu
\* taken (326), the counters and the unlock (327-336), b.recentMu taken
\* (338), the ring, go b.appendLog(entry) and the deferred unlock (339-348)
RecordQueryWithClientLocked ==
    /\ \/ /\ recording.pc = "stats_lock"
          /\ statsMu = NoHolder
          /\ statsMu' = [by |-> "record"]
          /\ recording' = [recording EXCEPT !.pc = "stats"]
          /\ UNCHANGED <<statVars, recent, appending, recentMu>>
       \/ /\ recording.pc = "stats"
          /\ countQuery(recording.domain, recording.client, recording.blocked)
          /\ statsMu' = NoHolder
          /\ recording' = [recording EXCEPT !.pc = "recent_lock"]
          /\ UNCHANGED <<recent, appending, recentMu>>
       \/ /\ recording.pc = "recent_lock"
          /\ recentMu = NoHolder
          /\ recentMu' = [by |-> "record"]
          /\ recording' = [recording EXCEPT !.pc = "recent"]
          /\ UNCHANGED <<statVars, recent, appending, statsMu>>
       \/ /\ recording.pc = "recent"
          /\ LET entry == QueryEntry(recording.n, recording.domain, recording.client,
                                     recording.blocked)
             IN  /\ recent' = appendRecent(recent, entry)
                 /\ appending' = appending \cup {entry}
          /\ recentMu' = NoHolder
          /\ recording' = [recording EXCEPT !.pc = "idle"]
          /\ UNCHANGED <<statVars, statsMu>>
    /\ UNCHANGED <<storeVars, dnsVars, calls, sessions, now, http, logFile, before, retired,
                   deleting, returned, logMu>>

\* appendLog, lines 351-372, run by its goroutine: b.logMu taken (355), the
\* entry written or lost and the deferred unlock (356-372)
appendLogLocked(e, ok) ==
    /\ e \in appending
    /\ \/ /\ logMu = NoHolder
          /\ logMu' = [by |-> "appendLog", e |-> e]
          /\ UNCHANGED <<appending, logFile>>
       \/ /\ logMu = [by |-> "appendLog", e |-> e]
          /\ logMu' = NoHolder
          /\ appending' = appending \ {e}
          /\ logFile' = IF ok THEN Append(logFile, e) ELSE logFile
    /\ UNCHANGED <<storeVars, dnsVars, calls, sessions, now, http, recent, before, retired,
                   statVars, deleting, returned, statsMu, recentMu, recording>>

\* DeleteLogs, lines 375-392, statement by statement: b.logMu taken (376),
\* the truncation (378-386), with which a failure returns and releases
\* b.logMu; b.recentMu taken (388), the ring cleared and both released
\* (389-391)
DeleteLogsLocked(fails) ==
    \/ /\ deleting.pc \in {"idle", "returned"}
       /\ deleting.n < MaxDeletes
       /\ deleting' = [pc |-> "log_lock", n |-> deleting.n + 1, at |-> queries, err |-> FALSE]
       /\ UNCHANGED <<recent, logFile, recentMu, logMu>>
    \/ /\ deleting.pc = "log_lock"
       /\ logMu = NoHolder
       /\ logMu' = [by |-> "DeleteLogs"]
       /\ deleting' = [deleting EXCEPT !.pc = "truncate"]
       /\ UNCHANGED <<recent, logFile, recentMu>>
    \/ /\ deleting.pc = "truncate"
       /\ logFile' = IF fails THEN logFile ELSE <<>>
       /\ logMu' = IF fails THEN NoHolder ELSE logMu
       /\ deleting' = [deleting EXCEPT !.pc = IF fails THEN "returned" ELSE "recent_lock",
                                       !.err = fails]
       /\ UNCHANGED <<recent, recentMu>>
    \/ /\ deleting.pc = "recent_lock"
       /\ recentMu = NoHolder
       /\ recentMu' = [by |-> "DeleteLogs"]
       /\ deleting' = [deleting EXCEPT !.pc = "clear"]
       /\ UNCHANGED <<recent, logFile, logMu>>
    \/ /\ deleting.pc = "clear"
       /\ recent' = <<>>
       /\ recentMu' = NoHolder
       /\ logMu' = NoHolder
       /\ deleting' = [deleting EXCEPT !.pc = "returned"]
       /\ UNCHANGED <<logFile>>

\* a caller's DeleteLogs(), and what its steps leave alone
CallDeleteLogs(fails) ==
    /\ DeleteLogsLocked(fails)
    /\ UNCHANGED <<storeVars, dnsVars, calls, sessions, now, http, before, retired, statVars,
                   appending, returned, statsMu, recording>>

\* GetLogs, lines 395-404, by call c: b.recentMu taken (396), the copy and
\* the deferred unlock (397-403)
GetLogsLocked(c, limit) ==
    /\ \/ /\ calls[c].pc = "idle"
          /\ calls' = [calls EXCEPT ![c] = [IdleCall EXCEPT !.op = "getlogs", !.pc = "gl_lock"]]
          /\ UNCHANGED <<recentMu, returned>>
       \/ /\ calls[c].pc = "gl_lock"
          /\ recentMu = NoHolder
          /\ recentMu' = [by |-> "GetLogs"]
          /\ calls' = [calls EXCEPT ![c].pc = "gl_read"]
          /\ UNCHANGED returned
       \/ /\ calls[c].pc = "gl_read"
          /\ returned' = [op |-> "GetLogs", limit |-> limit, out |-> GetLogs(recent, limit)]
          /\ recentMu' = NoHolder
          /\ calls' = [calls EXCEPT ![c].pc = "done"]
    /\ UNCHANGED <<storeVars, dnsVars, sessions, now, http, recent, logFile, before, retired,
                   statVars, appending, deleting, statsMu, logMu, recording>>

\* GetStats, lines 415-428, by call c: b.statsMu.RLock (416), the copies and
\* the deferred RUnlock (417-427)
GetStatsLocked(c) ==
    /\ \/ /\ calls[c].pc = "idle"
          /\ calls' = [calls EXCEPT ![c] = [IdleCall EXCEPT !.op = "getstats", !.pc = "gs_lock"]]
          /\ UNCHANGED <<statsMu, returned>>
       \/ /\ calls[c].pc = "gs_lock"
          /\ statsMu = NoHolder
          /\ statsMu' = [by |-> "GetStats"]
          /\ calls' = [calls EXCEPT ![c].pc = "gs_read"]
          /\ UNCHANGED returned
       \/ /\ calls[c].pc = "gs_read"
          /\ returned' = [op |-> "GetStats", out |-> GetStats]
          /\ statsMu' = NoHolder
          /\ calls' = [calls EXCEPT ![c].pc = "done"]
    /\ UNCHANGED <<storeVars, dnsVars, sessions, now, http, recent, logFile, before, retired,
                   statVars, appending, deleting, recentMu, logMu, recording>>

(***************************************************************************)
(* SpecLocks: the DNS goroutine (verdict, record call), the appendLog      *)
(* goroutines it starts, a DeleteLogs caller, call 1 on the list store (a  *)
(* reload, or a removal, which ends in LoadAll) and the other              *)
(* calls on GetLogs or GetStats.  The scheduler is fair: as long as some   *)
(* started operation can take a step, one of them does.  Every operation   *)
(* is started a bounded number of times, so this is no more than what      *)
(* fairness to each goroutine gives.  Nothing obliges an operation to      *)
(* start.                                                                  *)
(***************************************************************************)
Readers == CallIds \ {1}

InitLocks ==
    /\ StoreInit(MapPut(EmptyMap, "L1", <<sx, sy>>))
    /\ ipToMAC = EmptyMap
    /\ userBlocklists = [m \in {"A"} |-> {"L1"}]
    /\ AppConfig = [BlockingMode |-> "null", BlockPageIP |-> <<>>]
    /\ CallsInit
    /\ HandlersInit
    /\ ApiInit

StoreStep ==
    \/ Reload(1)
    \/ \E domain \in LockDomains : RemoveDomainLocked(1, "L1", domain)
    \/ CreateFile(1)
    \/ WriteLine(1)
    \/ LoadAllReadDir(1)
    \/ LoadAllOpen(1)
    \/ LoadAllSetLists(1)
    \/ LoadAllSetCompiled(1)

ReadStep(c) ==
    \/ \E limit \in LogLimits : GetLogsLocked(c, limit)
    \/ GetStatsLocked(c)

NextLocks ==
    \/ \E domain \in LockDomains, client \in LockClients : Query(domain, client)
    \/ RecordQueryWithClientLocked
    \/ \E e \in appending, ok \in BOOLEAN : appendLogLocked(e, ok)
    \/ \E fails \in BOOLEAN : CallDeleteLogs(fails)
    \/ StoreStep
    \/ \E c \in Readers : ReadStep(c)

Running(c) == calls[c].pc \notin {"idle", "done"}

DeleteRunning == deleting.pc \notin {"idle", "returned"}

\* a step of an operation that has started
Continue ==
    \/ RecordQueryWithClientLocked
    \/ \E e \in appending, ok \in BOOLEAN : appendLogLocked(e, ok)
    \/ DeleteRunning /\ \E fails \in BOOLEAN : CallDeleteLogs(fails)
    \/ Running(1) /\ StoreStep
    \/ \E c \in Readers : Running(c) /\ ReadStep(c)

SpecLocks == InitLocks /\ [][NextLocks]_vars /\ WF_vars(Continue)

\* C38: under any interleaving of DNS queries (the IsBlockedForUser read, the
\* record call and the appendLog goroutines it starts), GetLogs, GetStats,
\* DeleteLogs, LoadAll and the list mutators, with a fair scheduler, every
\* operation that has started completes and every one of b.mu, b.statsMu,
\* b.recentMu and b.logMu that is held is released: no goroutine waits
\* forever.
C38_DeadlockFreedom ==
    /\ (recording.pc # "idle") ~> (recording.pc = "idle")
    /\ (appending # {}) ~> (appending = {})
    /\ DeleteRunning ~> (deleting.pc = "returned")
    /\ \A c \in CallIds : Running(c) ~> (calls[c].pc = "done")
    /\ (mu # NoWriter) ~> (mu = NoWriter)
    /\ (statsMu # NoHolder) ~> (statsMu = NoHolder)
    /\ (recentMu # NoHolder) ~> (recentMu = NoHolder)
    /\ (logMu # NoHolder) ~> (logMu = NoHolder)

\* DeleteLogs holds b.logMu and waits for b.recentMu, which the record call
\* holds, while LoadAll holds b.mu
C38_Witness ==
    /\ deleting.pc = "recent_lock"
    /\ logMu = [by |-> "DeleteLogs"]
    /\ recentMu = [by |-> "record"]
    /\ mu # NoWriter


(***************************************************************************)
(* C39.  Policy lookup fails open: the verdict is "not blocked", and the   *)
(* question goes on to be forwarded, whenever the device identifier is     *)
(* empty, the enabled-list lookup returned an error, or the device has no  *)
(* enabled lists; an enabled list that the snapshot does not hold is       *)
(* skipped, so a block always comes from a rule of an enabled list that    *)
(* the snapshot holds.                                                     *)
(***************************************************************************)
C39_FailsOpen ==
    \A h \in HandlerIds :
        Decided(h) =>
            LET s == handlers[h]
                d == NormDomain(CurQuestion(h).name)
            IN  /\ (s.mac = "" \/ s.lookup.err \/ s.lookup.lists = {})
                       => (~s.blocked /\ (s.pc = "forward" \/ s.forwarded # <<>>))
                /\ s.blocked
                       => \E n \in s.lookup.lists \cap DOMAIN lists.val :
                              \E r \in Range(lists.val[n]) : WildcardMatch(r, d)


(***************************************************************************)
(* C40.  List creation binds the list to its creator: once POST            *)
(* /lists/create by a session of a device is answered with success, the    *)
(* device's list is in the snapshot and among the device's enabled lists,  *)
(* and every rule on it is blocked for the device; once a list delete is   *)
(* answered with success, the list is neither in the directory, nor in the *)
(* snapshot, nor among the device's enabled lists.  So no success is       *)
(* answered while only one of file and association has been updated.       *)
(***************************************************************************)
C40_CreationBinds ==
    \A c \in {1} :
        LET q       == http[c]
            enabled == IF q.mac \in DOMAIN userBlocklists THEN userBlocklists[q.mac] ELSE {}
        IN  (q.stage = "done" /\ q.status = 200) =>
                /\ q.call \in {"create_items", "create_url"} =>
                       /\ q.name \in DOMAIN files
                       /\ q.name \in DOMAIN lists.val
                       /\ q.name \in enabled
                       /\ \A i \in 1..Len(lists.val[q.name]) :
                              IsBlockedForUser(lists.val[q.name][i], q.mac,
                                               [err |-> FALSE, lists |-> enabled], lists.val)
                /\ q.call = "delete" =>
                       /\ q.name \notin DOMAIN files
                       /\ q.name \notin DOMAIN lists.val
                       /\ q.name \notin enabled

====
